---------------------------- MODULE Spec2Model ----------------------------
(***************************************************************************)
(* GB/T 43229-2023 framed messaging between the signal controller (TCP     *)
(* server) and the vehicle detectors (TCP clients): the wire codec, the    *)
(* per-connection stream reassembler and the session timers.               *)
(*                                                                         *)
(* Bytes are the integers 0..255, byte strings are sequences of them.  A   *)
(* C array index i is position i+1 of the sequence.                        *)
(***************************************************************************)
EXTENDS Integers, Sequences, FiniteSets, TLC

VARIABLES
    c_pc,       \* codec harness: which codec calls have been made
    c_b,        \* codec harness: the byte string given to escape_data
    c_d,        \* codec harness: the data table given to encode_frame
    c_esc,      \* result of escape_data(c_b)
    c_unesc,    \* result of unescape_data on the escaped bytes
    c_enc,      \* result of encode_frame(c_d)
    c_dec       \* result of decode_frame on the encoded bytes

codecVars == <<c_pc, c_b, c_d, c_esc, c_unesc, c_enc, c_dec>>
VARIABLES now, ctl, net, backlog, obs, s_items
serverVars == <<now, ctl, net, backlog, obs, s_items>>

VARIABLES
    det,        \* the vehicle_detector_t of the client
    link,       \* the client's socket and the server behind it
    d_obs       \* what the model records of the client's reconnects

clientVars == <<det, link, d_obs>>

vars == <<codecVars, serverVars, clientVars>>

-----------------------------------------------------------------------------
(* protocol.h                                                              *)

PROTOCOL_VERSION == 16
FRAME_START == 192
FRAME_END == 192
ESCAPE_CHAR == 219
ESCAPE_START == 220
ESCAPE_ESCAPE == 221
MAX_FRAME_SIZE == 2048
MAX_CONTENT_SIZE == 1500

OP_QUERY_REQUEST == 128
OP_SET_REQUEST == 129
OP_UPLOAD == 130
OP_QUERY_RESPONSE == 131
OP_SET_RESPONSE == 132
OP_UPLOAD_RESPONSE == 133
OP_ERROR_RESPONSE == 134

OBJ_COMMUNICATION == 257
OBJ_DETECTOR_STATUS == 517
OBJ_TRAFFIC_REALTIME == 769
OBJ_TRAFFIC_STATS == 770

DEVICE_TYPE_SIGNAL == 1
DEVICE_TYPE_COIL == 2

ERROR_CRC == 3

PROTOCOL_SUCCESS == 0
PROTOCOL_ERROR_INVALID_PARAM == 1
PROTOCOL_ERROR_BUFFER_SMALL == 2
PROTOCOL_ERROR_CRC == 3
PROTOCOL_ERROR_FORMAT == 4
PROTOCOL_ERROR_ESCAPE == 5
PROTOCOL_ERROR_INCOMPLETE == 6

(* size_t arithmetic.  Every size of the model is far below SIZE_MAX, so   *)
(* the value 2^31-1 stands for the 2^64-1 that 0 - 1 wraps to.             *)
SIZE_MAX == (2^30 - 1) * 2 + 1
SizeSub(a, b) == IF a >= b THEN a - b ELSE SIZE_MAX - (b - a) + 1

-----------------------------------------------------------------------------
(* Bit operations on unsigned integers                                     *)

Xor4 == [a \in 0..15 |-> [b \in 0..15 |->
            ((a + b) % 2)
          + 2 * (((a \div 2) + (b \div 2)) % 2)
          + 4 * (((a \div 4) + (b \div 4)) % 2)
          + 8 * (((a \div 8) + (b \div 8)) % 2)]]
Xor8(a, b) == 16 * Xor4[a \div 16][b \div 16] + Xor4[a % 16][b % 16]
Xor16(a, b) == 256 * Xor8(a \div 256, b \div 256) + Xor8(a % 256, b % 256)

-----------------------------------------------------------------------------
(* crc16.c: CRC-16/MODBUS, initial value 0xFFFF, reflected polynomial      *)
(* 0xA001, no final xor, table-driven over 256 entries                     *)

RECURSIVE CrcTableEntry(_, _)
CrcTableEntry(c, n) ==
    IF n = 0 THEN c
    ELSE CrcTableEntry(IF c % 2 = 1 THEN Xor16(c \div 2, 40961) ELSE c \div 2, n - 1)

crc16_table == [i \in 0..255 |-> CrcTableEntry(i, 8)]

(* one iteration of the loop of calculate_crc16 *)
CrcStep(crc, byte) ==
    Xor16(crc \div 256, crc16_table[Xor8(crc % 256, byte)])

(* the iterations lo..hi of the loop, in order; crc is a uint16_t *)
RECURSIVE CrcRun(_, _, _, _)
CrcRun(crc, data, lo, hi) ==
    IF lo > hi THEN crc
    ELSE IF lo = hi THEN CrcStep(crc, data[lo])
    ELSE LET mid  == (lo + hi) \div 2
             left == CrcRun(crc, data, lo, mid)
         IN  IF left \in 0..65535 THEN CrcRun(left, data, mid + 1, hi) ELSE left

calculate_crc16(data) == CrcRun(65535, data, 1, Len(data))

-----------------------------------------------------------------------------
(* protocol.c: escape_data / unescape_data                                 *)
(*                                                                         *)
(* A loop state is [out, ret, oob]: out holds the bytes written so far     *)
(* (output_pos = Len(out)), ret is 0 while the loop runs and -1 once the   *)
(* function has returned -1, oob records a write at an index >= the        *)
(* output capacity.                                                        *)

EscInit == [out |-> <<>>, ret |-> 0, oob |-> FALSE]

(* escape_data with the two escape codes exchanged for the escape byte *)
EscapeByteSameCode(byte) ==
    IF byte = FRAME_START \/ byte = FRAME_END \/ byte = ESCAPE_CHAR
    THEN <<ESCAPE_CHAR, ESCAPE_START>>
    ELSE <<byte>>

(* the bytes escape_data emits for one input byte *)
EscapeByte(byte) ==
    IF byte = FRAME_START \/ byte = FRAME_END THEN <<ESCAPE_CHAR, ESCAPE_START>>
    ELSE IF byte = ESCAPE_CHAR THEN <<ESCAPE_CHAR, ESCAPE_ESCAPE>>
    ELSE <<byte>>

(* an escape step that lets the delimiter through *)
EscapeStepKeepDelimiter(st, byte, output_size) ==
    IF st.ret < 0 THEN st
    ELSE IF Len(st.out) >= SizeSub(output_size, 1) THEN [st EXCEPT !.ret = -1]
    ELSE IF byte = ESCAPE_CHAR
    THEN [st EXCEPT !.out = @ \o <<ESCAPE_CHAR, ESCAPE_ESCAPE>>]
    ELSE [st EXCEPT !.out = Append(@, byte)]

(* one iteration of the for loop of escape_data *)
EscapeStep(st, byte, output_size) ==
    LET pos == Len(st.out)
        e   == EscapeByte(byte)
    IN  IF st.ret < 0 THEN st
        ELSE IF pos >= SizeSub(output_size, 1) THEN [st EXCEPT !.ret = -1]
        ELSE IF Len(e) = 2
             THEN IF pos + 1 >= output_size
                  THEN [out |-> Append(st.out, e[1]), ret |-> -1,
                        oob |-> st.oob \/ pos >= output_size]
                  ELSE [out |-> st.out \o e, ret |-> 0,
                        oob |-> st.oob \/ pos + 1 >= output_size]
             ELSE [out |-> Append(st.out, e[1]), ret |-> 0,
                   oob |-> st.oob \/ pos >= output_size]

RECURSIVE EscapeRun(_, _, _, _, _)
EscapeRun(st, input, lo, hi, output_size) ==
    IF lo > hi THEN st
    ELSE IF lo = hi THEN EscapeStep(st, input[lo], output_size)
    ELSE LET mid  == (lo + hi) \div 2
             left == EscapeRun(st, input, lo, mid, output_size)
         IN  IF left.ret < 0 THEN left      \* the function has returned
             ELSE EscapeRun(left, input, mid + 1, hi, output_size)

(* what the function returns when its loop ends in the state st: the     *)
(* number of bytes written, or -1                                          *)
LoopResult(st) ==
    [ret |-> IF st.ret < 0 THEN -1 ELSE Len(st.out), out |-> st.out, oob |-> st.oob]

(* escape_data(input, Len(input), output, output_size): ret is the return  *)
(* value, out the bytes written to output                                  *)
escape_data(input, output_size) ==
    IF Len(input) = 0 THEN [ret |-> -1, out |-> <<>>, oob |-> FALSE]
    ELSE LoopResult(EscapeRun(EscInit, input, 1, Len(input), output_size))

(* Loop state of unescape_data: [i, out, ret, oob], i the 1-based index    *)
(* of the next input byte to read.                                         *)
UnescInit == [i |-> 1, out |-> <<>>, ret |-> 0, oob |-> FALSE]

(* one iteration of the while loop of unescape_data, entered with i = k *)
UnescapeStep(st, input, k, output_size) ==
    LET pos == Len(st.out)
        n   == Len(input)
    IN  IF st.ret < 0 \/ st.i # k THEN st
        ELSE IF pos >= output_size THEN [st EXCEPT !.ret = -1]
        ELSE IF input[k] = ESCAPE_CHAR /\ k + 1 <= n
             THEN IF input[k + 1] = ESCAPE_START
                  THEN [st EXCEPT !.out = Append(st.out, FRAME_START), !.i = k + 2]
                  ELSE IF input[k + 1] = ESCAPE_ESCAPE
                  THEN [st EXCEPT !.out = Append(st.out, ESCAPE_CHAR), !.i = k + 2]
                  ELSE [st EXCEPT !.ret = -1]
             ELSE [st EXCEPT !.out = Append(st.out, input[k]), !.i = k + 1]

RECURSIVE UnescapeRun(_, _, _, _, _)
UnescapeRun(st, input, lo, hi, output_size) ==
    IF lo > hi THEN st
    ELSE IF lo = hi THEN UnescapeStep(st, input, lo, output_size)
    ELSE LET mid  == (lo + hi) \div 2
             left == UnescapeRun(st, input, lo, mid, output_size)
         IN  IF left.ret < 0 THEN left      \* the function has returned
             ELSE UnescapeRun(left, input, mid + 1, hi, output_size)

unescape_data(input, output_size) ==
    IF Len(input) = 0 THEN [ret |-> -1, out |-> <<>>, oob |-> FALSE]
    ELSE LoopResult(UnescapeRun(UnescInit, input, 1, Len(input), output_size))

-----------------------------------------------------------------------------
(* protocol.c: the frame codec                                             *)
(*                                                                         *)
(* A device_id_t is [admin_code, device_type, device_id]; a data_table_t   *)
(* is [link_addr, sender, receiver, protocol_ver, operation, object_id,    *)
(* content_len, content], content = <<>> standing for the NULL pointer.    *)

create_device_id(admin_code, device_type, device_id) ==
    [admin_code |-> admin_code % 16777216, device_type |-> device_type,
     device_id |-> device_id]

create_data_table(sender, receiver, operation, object_id, content, content_len) ==
    [link_addr |-> 0, sender |-> sender, receiver |-> receiver,
     protocol_ver |-> PROTOCOL_VERSION, operation |-> operation,
     object_id |-> object_id, content_len |-> content_len,
     content |-> IF content_len > 0 THEN SubSeq(content, 1, content_len) ELSE <<>>]

create_error_frame(sender, receiver, error_type) ==
    create_data_table(sender, receiver, OP_ERROR_RESPONSE, 0, <<error_type>>, 1)

serialize_device_id(id) ==
    << id.admin_code % 256, (id.admin_code \div 256) % 256,
       (id.admin_code \div 65536) % 256,
       id.device_type % 256, (id.device_type \div 256) % 256,
       id.device_id % 256, (id.device_id \div 256) % 256 >>

deserialize_device_id(b) ==
    [admin_code  |-> b[1] + 256 * b[2] + 65536 * b[3],
     device_type |-> b[4] + 256 * b[5],
     device_id   |-> b[6] + 256 * b[7]]

(* the 20 header bytes encode_frame writes to data_table *)
SerializeHeader(d) ==
    << d.link_addr % 256, (d.link_addr \div 256) % 256 >>
    \o serialize_device_id(d.sender)
    \o serialize_device_id(d.receiver)
    \o << d.protocol_ver, d.operation,
          d.object_id % 256, (d.object_id \div 256) % 256 >>

EncodeFail == [ret |-> -1, buf |-> <<>>, oob |-> FALSE]

(* the bytes encode_frame writes to data_table before the CRC *)
DataTableBytes(d) ==
    IF d.content # <<>> /\ d.content_len > 0
    THEN SerializeHeader(d) \o d.content
    ELSE SerializeHeader(d)

(* the CRC appended high byte first *)
AppendCrcHighFirst(body, crc) == body \o << (crc \div 256) % 256, crc % 256 >>

(* data_table with the CRC of its bytes appended, low byte first *)
AppendCrc(body, crc) == body \o << crc % 256, (crc \div 256) % 256 >>

(* the end of encode_frame: esc is what escape_data returned for the       *)
(* table_len bytes of data_table                                           *)
FrameOfEscaped(table_len, esc, buffer_size) ==
    IF esc.ret < 0 \/ 1 + esc.ret >= buffer_size
    THEN [EncodeFail EXCEPT !.oob = table_len > MAX_FRAME_SIZE]
    ELSE [ret |-> esc.ret + 2,
          buf |-> <<FRAME_START>> \o esc.out \o <<FRAME_END>>,
          oob |-> table_len > MAX_FRAME_SIZE \/ esc.oob]

EncodeTable(table, buffer_size) ==
    FrameOfEscaped(Len(table), escape_data(table, MAX_FRAME_SIZE), buffer_size)

EncodeBody(body, buffer_size) ==
    EncodeTable(AppendCrc(body, calculate_crc16(body)), buffer_size)

(* encode_frame(frame, buffer, buffer_size): ret is the return value, buf  *)
(* the bytes of buffer it wrote, oob a write past one of the work arrays   *)
encode_frame(d, buffer_size) ==
    IF buffer_size < 20 THEN EncodeFail
    ELSE IF /\ d.content # <<>> /\ d.content_len > 0
            /\ Len(SerializeHeader(d)) + d.content_len > MAX_FRAME_SIZE
    THEN EncodeFail
    ELSE EncodeBody(DataTableBytes(d), buffer_size)

NoFrame == [link_addr |-> 0, sender |-> create_device_id(0, 0, 0),
            receiver |-> create_device_id(0, 0, 0), protocol_ver |-> 0,
            operation |-> 0, object_id |-> 0, content_len |-> 0, content |-> <<>>]

DecodeError(r) == [result |-> r, frame |-> NoFrame, crc |-> 0, oob |-> FALSE]

(* the fields decode_frame parses from the unescaped bytes u of length     *)
(* ulen: pos runs 0, 2, 9, 16, 17, 18, 20; content_len is a uint16_t.      *)
(* The content copy reads content_len bytes from u[pos]; the bytes it      *)
(* takes from inside u are kept, a read past u[ulen-1] is recorded by      *)
(* decode_frame as oob.                                                    *)
ParseDataTable(u, ulen) ==
    LET pos         == 20
        content_len == ((ulen - 2) - pos) % 65536
        last        == IF pos + content_len <= ulen THEN pos + content_len ELSE ulen
    IN  [link_addr    |-> u[1] + 256 * u[2],
         sender       |-> deserialize_device_id(SubSeq(u, 3, 9)),
         receiver     |-> deserialize_device_id(SubSeq(u, 10, 16)),
         protocol_ver |-> u[17],
         operation    |-> u[18],
         object_id    |-> u[19] + 256 * u[20],
         content_len  |-> content_len,
         content      |-> IF content_len > 0 THEN SubSeq(u, pos + 1, last) ELSE <<>>]

(* decode_frame returning success with the parsed frame *)
DecodeSuccess(frame, ulen, received_crc) ==
    [result |-> PROTOCOL_SUCCESS, frame |-> frame, crc |-> received_crc,
     oob |-> 20 + frame.content_len > ulen]

(* the end of decode_frame, the CRC compared *)
DecodeChecked(u, ulen, received_crc, calculated_crc) ==
    IF received_crc # calculated_crc
    THEN [DecodeError(PROTOCOL_ERROR_CRC) EXCEPT !.crc = received_crc]
    ELSE DecodeSuccess(ParseDataTable(u, ulen), ulen, received_crc)

(* decode_frame from the return of unescape_data on *)
DecodeUnescaped(un) ==
    IF un.ret < 0 THEN DecodeError(PROTOCOL_ERROR_ESCAPE)
    ELSE IF un.ret < 20 THEN DecodeError(PROTOCOL_ERROR_INCOMPLETE)
    ELSE DecodeChecked(un.out, un.ret, un.out[un.ret - 1] + 256 * un.out[un.ret],
                       calculate_crc16(SubSeq(un.out, 1, un.ret - 2)))

(* decode_frame(buffer, Len(buffer), frame): result is the returned        *)
(* protocol_result_t, frame the data table written on success, crc the     *)
(* received CRC, oob a read of the content copy outside the unescaped data *)
decode_frame(buffer) ==
    IF Len(buffer) < 4 THEN DecodeError(PROTOCOL_ERROR_INVALID_PARAM)
    ELSE IF buffer[1] # FRAME_START \/ buffer[Len(buffer)] # FRAME_END
    THEN DecodeError(PROTOCOL_ERROR_FORMAT)
    ELSE DecodeUnescaped(unescape_data(SubSeq(buffer, 2, Len(buffer) - 1), MAX_FRAME_SIZE))

-----------------------------------------------------------------------------
(* signal_controller.h / signal_controller.c: the server                   *)
(*                                                                         *)
(* A client_info_t is [sockfd, device_id, last_heartbeat, connected,       *)
(* recv_buffer]; recv_buffer holds the first recv_buffer_len bytes of the  *)
(* array, so recv_buffer_len = Len(recv_buffer).  The controller is [device_id,     *)
(* server_sockfd, clients, client_count, running, last_heartbeat_check].   *)
(*                                                                         *)
(* The handlers act on a world w = [ctl, net]: ctl the controller, net[i]  *)
(* the connection held by slot i: wire, the bytes the peer has sent and    *)
(* the server has not read yet; peer_closed; tx, the data tables the       *)
(* server has written to the socket; rx, the outcome of every slice        *)
(* given to process_single_frame.                                          *)

MAX_CLIENTS == 64
HEARTBEAT_INTERVAL == 5
HEARTBEAT_TIMEOUT == 15
SELECT_TIMEOUT == 1
CLIENT_RECV_BUFFER_SIZE == 4096

Slots == 0..(MAX_CLIENTS - 1)

NoDevice == [admin_code |-> 0, device_type |-> 0, device_id |-> 0]

signal_controller_init(admin_code, device_id, t) ==
    [device_id |-> create_device_id(admin_code, DEVICE_TYPE_SIGNAL, device_id),
     server_sockfd |-> -1,
     client_count |-> 0,
     running |-> 0,
     last_heartbeat_check |-> t,
     clients |-> [i \in Slots |->
                    [sockfd |-> -1, device_id |-> NoDevice, last_heartbeat |-> 0,
                     connected |-> 0, recv_buffer |-> <<>>]]]

(* a connection as the peer and the network hold it: the bytes sent to the *)
(* server and not yet received, whether the peer has closed, the frames    *)
(* the server sent (tx) and the decode results of the frames it processed  *)
(* (rx) in its latest loop iteration, and the peer: whether it answers     *)
(* heartbeat queries, whether one waits for its answer, whether it has     *)
(* sent its handshake                                                      *)
NoConn == [wire |-> <<>>, peer_closed |-> FALSE, tx |-> <<>>, rx |-> <<>>,
           responsive |-> TRUE, pending |-> FALSE, hs_sent |-> FALSE]

(* send_all(sockfd, buffer, size) on the socket of slot idx: the frame     *)
(* reaches the peer unless the peer has closed the connection              *)
send_all(w, idx, table) ==
    IF w.net[idx].peer_closed THEN w
    ELSE [w EXCEPT !.net[idx].tx = Append(@, table)]

(* encode into a buffer of MAX_FRAME_SIZE bytes, send_all if that worked *)
SendTable(w, idx, table) ==
    IF encode_frame(table, MAX_FRAME_SIZE).ret > 0 THEN send_all(w, idx, table) ELSE w

send_response(w, idx, operation, object_id, content, content_len) ==
    IF idx < 0 \/ idx >= MAX_CLIENTS THEN w
    ELSE IF w.ctl.clients[idx].connected = 0 THEN w
    ELSE SendTable(w, idx,
                   create_data_table(w.ctl.device_id, w.ctl.clients[idx].device_id,
                                     operation, object_id, content, content_len))

(* send_heartbeat_query that sends nothing *)
NoHeartbeatQuery(w, idx) == w

send_heartbeat_query(w, idx) ==
    send_response(w, idx, OP_QUERY_REQUEST, OBJ_COMMUNICATION, <<>>, 0)

(* handle_connection_request that does not save the sender *)
AnswerWithoutRecord(w, idx, frame, t) ==
    send_response([w EXCEPT !.ctl.clients[idx].last_heartbeat = t],
                  idx, OP_SET_RESPONSE, OBJ_COMMUNICATION, <<>>, 0)

handle_connection_request(w, idx, frame, t) ==
    send_response([w EXCEPT !.ctl.clients[idx].device_id = frame.sender,
                            !.ctl.clients[idx].last_heartbeat = t],
                  idx, OP_SET_RESPONSE, OBJ_COMMUNICATION, <<>>, 0)

(* handle_heartbeat_response without the refresh of last_heartbeat *)
IgnoreHeartbeatResponse(w, idx, frame, t) == w

handle_heartbeat_response(w, idx, frame, t) ==
    [w EXCEPT !.ctl.clients[idx].last_heartbeat = t]

handle_realtime_data(w, idx, frame) == w

(* handle_statistics_data without its response *)
StatisticsWithoutAnswer(w, idx, frame) == w

handle_statistics_data(w, idx, frame) ==
    send_response(w, idx, OP_UPLOAD_RESPONSE, frame.object_id, <<>>, 0)

(* disconnect_client that leaves client_count as it is *)
DisconnectKeepsCount(w, idx) ==
    IF idx < 0 \/ idx >= MAX_CLIENTS THEN w
    ELSE IF w.ctl.clients[idx].connected = 0 THEN w
    ELSE [w EXCEPT !.ctl.clients[idx].sockfd = -1,
                   !.ctl.clients[idx].connected = 0,
                   !.ctl.clients[idx].recv_buffer = <<>>]

disconnect_client(w, idx) ==
    IF idx < 0 \/ idx >= MAX_CLIENTS THEN w
    ELSE IF w.ctl.clients[idx].connected = 0 THEN w
    ELSE [w EXCEPT !.ctl.clients[idx].sockfd = -1,
                   !.ctl.clients[idx].connected = 0,
                   !.ctl.clients[idx].recv_buffer = <<>>,
                   !.ctl.client_count = @ - 1]

(* the switch of process_single_frame with an ERROR_RESP for the frames    *)
(* of the default case                                                     *)
DispatchAnswersUnknown(w, idx, frame, t) ==
    IF frame.object_id \in {OBJ_COMMUNICATION, OBJ_TRAFFIC_REALTIME, OBJ_TRAFFIC_STATS,
                            OBJ_DETECTOR_STATUS}
    THEN w
    ELSE SendTable(w, idx, create_error_frame(w.ctl.device_id,
                                              w.ctl.clients[idx].device_id, ERROR_CRC))

(* the switch of process_single_frame on a decoded frame *)
DispatchFrame(w, idx, frame, t) ==
    IF frame.object_id = OBJ_COMMUNICATION
    THEN IF frame.operation = OP_SET_REQUEST
         THEN handle_connection_request(w, idx, frame, t)
         ELSE IF frame.operation = OP_QUERY_RESPONSE
         THEN handle_heartbeat_response(w, idx, frame, t)
         ELSE w
    ELSE IF frame.object_id = OBJ_TRAFFIC_REALTIME
    THEN IF frame.operation = OP_UPLOAD THEN handle_realtime_data(w, idx, frame) ELSE w
    ELSE IF frame.object_id = OBJ_TRAFFIC_STATS
    THEN IF frame.operation = OP_UPLOAD THEN handle_statistics_data(w, idx, frame) ELSE w
    ELSE IF frame.object_id = OBJ_DETECTOR_STATUS
    THEN IF frame.operation = OP_UPLOAD
         THEN send_response(w, idx, OP_UPLOAD_RESPONSE, OBJ_DETECTOR_STATUS, <<>>, 0)
         ELSE w
    ELSE w

(* process_single_frame after decode_frame returned dec; w already holds   *)
(* dec in rx                                                               *)
ProcessDecoded(w, idx, dec, t) ==
    IF dec.result # PROTOCOL_SUCCESS
    THEN SendTable(w, idx, create_error_frame(w.ctl.device_id,
                                              w.ctl.clients[idx].device_id, ERROR_CRC))
    ELSE DispatchFrame(w, idx, dec.frame, t)

RecordDecoded(w, idx, dec, t) ==
    ProcessDecoded([w EXCEPT !.net[idx].rx = Append(@, dec)], idx, dec, t)

process_single_frame(w, idx, frame_data, t) ==
    IF Len(frame_data) = 0 THEN w
    ELSE RecordDecoded(w, idx, decode_frame(frame_data), t)

ServerAdmin == 110100

(* what the model records of the server's treatment of a slot: hs_at is   *)
(* the time of the handshake, queried_at of the first heartbeat query      *)
(* after it, quiet says that nothing arrived after the handshake; ended_at *)
(* is the time of a disconnect by the timeout check, answering whether the *)
(* client was one that answers                                             *)
NoObs == [timed_out |-> FALSE, ended_at |-> -1, answering |-> FALSE, hs_at |-> -1,
          queried_at |-> -1, quiet |-> TRUE]

(* the server before any connection *)
ServerOff ==
    /\ now = 0
    /\ ctl = signal_controller_init(ServerAdmin, 1, 0)
    /\ net = [i \in Slots |-> NoConn]
    /\ backlog = <<>>
    /\ obs = [i \in Slots |-> NoObs]
    /\ s_items = <<>>

(* the least element of a non-empty set of integers: the index at which a  *)
(* for loop that scans upwards and breaks at the first match stops         *)
FirstOf(S) == CHOOSE i \in S : \A j \in S : i <= j

(* extract_complete_frame returning 0 with *buffer_len bytes left *)
NoFrameFound(buffer) ==
    [result |-> 0, buffer |-> buffer, frame_start |-> 0, frame_len |-> 0]

(* the indices (0-based, as in C) the start scan and the end scan accept *)
FrameStarts(buffer) == {i \in 0..(Len(buffer) - 1) : buffer[i + 1] = FRAME_START}

FrameEnds(buffer, start_pos) ==
    {i \in (start_pos + 1)..(Len(buffer) - 1) :
        /\ buffer[i + 1] = FRAME_END
        /\ ~(i > 0 /\ buffer[i] = ESCAPE_CHAR)}

(* extract_complete_frame from the end scan on *)
ExtractFrom(buffer, start_pos) ==
    IF FrameEnds(buffer, start_pos) = {}
    THEN IF start_pos > 0
         THEN NoFrameFound(SubSeq(buffer, start_pos + 1, Len(buffer)))
         ELSE NoFrameFound(buffer)
    ELSE [result |-> 1, buffer |-> buffer, frame_start |-> start_pos,
          frame_len |-> FirstOf(FrameEnds(buffer, start_pos)) - start_pos + 1]

(* extract_complete_frame with the frame taken to start at the first byte  *)
(* of the buffer, without the scan for a start delimiter                   *)
ExtractFromBufferStart(buffer) ==
    IF Len(buffer) < 4 THEN NoFrameFound(buffer) ELSE ExtractFrom(buffer, 0)

(* extract_complete_frame(buffer, &buffer_len, &frame_start, &frame_len):  *)
(* result is the return value, buffer the first *buffer_len bytes of the   *)
(* array afterwards; frame_start and frame_len (0-based, as in C) are set  *)
(* only when result = 1                                                    *)
extract_complete_frame(buffer) ==
    IF Len(buffer) < 4 THEN NoFrameFound(buffer)
    ELSE IF FrameStarts(buffer) = {} THEN NoFrameFound(<<>>)
    ELSE ExtractFrom(buffer, FirstOf(FrameStarts(buffer)))

(* the memmove of handle_client_message that keeps the last byte of the    *)
(* frame it processed                                                      *)
RemoveAllButLast(w, idx, n) ==
    [w EXCEPT !.ctl.clients[idx].recv_buffer = SubSeq(@, n, Len(@))]

(* the memmove of handle_client_message that drops the first n bytes *)
RemoveProcessed(w, idx, n) ==
    [w EXCEPT !.ctl.clients[idx].recv_buffer = SubSeq(@, n + 1, Len(@))]

(* the frame extract_complete_frame found, processed and removed *)
ProcessExtracted(w, idx, t, ex) ==
    RemoveProcessed(
        process_single_frame(w, idx,
                             SubSeq(w.ctl.clients[idx].recv_buffer,
                                    ex.frame_start + 1, ex.frame_start + ex.frame_len),
                             t),
        idx, ex.frame_start + ex.frame_len)

(* the loop body of handle_client_message run once instead of until the    *)
(* buffer holds no complete frame                                          *)
DrainOneFrame(w, idx, t, ex) ==
    IF ex.result <= 0 THEN [w EXCEPT !.ctl.clients[idx].recv_buffer = ex.buffer]
    ELSE ProcessExtracted(w, idx, t, ex)

(* the while loop of handle_client_message that drains the complete        *)
(* frames: DrainFrames is the loop test, DrainExtracted the body after     *)
(* extract_complete_frame returned ex                                      *)
RECURSIVE DrainFrames(_, _, _)
RECURSIVE DrainExtracted(_, _, _, _)
DrainExtracted(w, idx, t, ex) ==
    IF ex.result <= 0 THEN [w EXCEPT !.ctl.clients[idx].recv_buffer = ex.buffer]
    ELSE DrainFrames(ProcessExtracted(w, idx, t, ex), idx, t)

DrainFrames(w, idx, t) ==
    IF Len(w.ctl.clients[idx].recv_buffer) = 0 THEN w
    ELSE DrainExtracted(w, idx, t, extract_complete_frame(w.ctl.clients[idx].recv_buffer))

(* the space offered to recv taken to be the whole buffer whatever it holds *)
AvailableSpaceWholeBuffer(client) == CLIENT_RECV_BUFFER_SIZE

(* the space handle_client_message offers to recv *)
AvailableSpace(client) ==
    IF CLIENT_RECV_BUFFER_SIZE - Len(client.recv_buffer) = 0
    THEN CLIENT_RECV_BUFFER_SIZE
    ELSE CLIENT_RECV_BUFFER_SIZE - Len(client.recv_buffer)

(* the reset of a full buffer at the start of handle_client_message *)
ResetIfFull(w, idx) ==
    IF CLIENT_RECV_BUFFER_SIZE - Len(w.ctl.clients[idx].recv_buffer) = 0
    THEN [w EXCEPT !.ctl.clients[idx].recv_buffer = <<>>]
    ELSE w

(* handle_client_message from recv on: recv wrote the bytes chunk *)
ReceiveChunk(w, idx, chunk, t) ==
    IF Len(chunk) <= 0 THEN [w |-> w, ret |-> -1]
    ELSE [w   |-> DrainFrames([w EXCEPT !.ctl.clients[idx].recv_buffer = @ \o chunk],
                              idx, t),
          ret |-> 0]

(* handle_client_message(controller, idx) when recv writes the bytes chunk *)
(* (<<>>: recv returned 0 or -1): ret is the return value                  *)
handle_client_message(w, idx, chunk, t) ==
    ReceiveChunk(ResetIfFull(w, idx), idx, chunk, t)

FreeSlots(w) == {i \in Slots : w.ctl.clients[i].connected = 0}

(* handle_new_connection from the slot found on *)
AcceptInto(w, client_idx, fd, conn, t) ==
    [w EXCEPT !.ctl.clients[client_idx].sockfd = fd,
              !.ctl.clients[client_idx].connected = 1,
              !.ctl.clients[client_idx].last_heartbeat = t,
              !.ctl.clients[client_idx].recv_buffer = <<>>,
              !.ctl.client_count = @ + 1,
              !.net[client_idx] = conn]

(* handle_new_connection that takes the first slot when none is free *)
AcceptOverFirstSlot(w, fd, conn, t) ==
    IF FreeSlots(w) = {} THEN AcceptInto(w, 0, fd, conn, t)
    ELSE AcceptInto(w, FirstOf(FreeSlots(w)), fd, conn, t)

(* handle_new_connection(controller) when accept returns the socket fd of  *)
(* the connection conn                                                     *)
handle_new_connection(w, fd, conn, t) ==
    IF FreeSlots(w) = {} THEN w
    ELSE AcceptInto(w, FirstOf(FreeSlots(w)), fd, conn, t)

(* the for loop of check_heartbeat_timeout over the slots lo..hi *)
RECURSIVE TimeoutLoop(_, _, _, _)
TimeoutLoop(w, lo, hi, current_time) ==
    IF lo > hi THEN w
    ELSE IF lo = hi
    THEN IF /\ w.ctl.clients[lo].connected # 0
            /\ current_time - w.ctl.clients[lo].last_heartbeat > HEARTBEAT_TIMEOUT
         THEN disconnect_client(w, lo)
         ELSE w
    ELSE LET left == TimeoutLoop(w, lo, (lo + hi) \div 2, current_time)
         IN  IF left.ctl.client_count >= 0
             THEN TimeoutLoop(left, (lo + hi) \div 2 + 1, hi, current_time)
             ELSE left

(* check_heartbeat_timeout that disconnects nobody *)
NoTimeoutCheck(w, t) == w

check_heartbeat_timeout(w, t) == TimeoutLoop(w, 0, MAX_CLIENTS - 1, t)

(* the body of the client loop of signal_controller_start for a readable   *)
(* slot: handle_client_message, and disconnect_client if it returned < 0   *)
DisconnectIfFailed(r, idx) ==
    IF r.ret < 0 THEN disconnect_client(r.w, idx) ELSE r.w

(* ... when recv returns the first n bytes that are on the wire *)
ServeSlot(w, idx, n, t) ==
    DisconnectIfFailed(
        handle_client_message([w EXCEPT !.net[idx].wire = SubSeq(@, n + 1, Len(@))],
                              idx, SubSeq(w.net[idx].wire, 1, n), t),
        idx)

(* the bytes one recv returns: what is on the wire, as far as there is room *)
RecvLen(w, idx) ==
    IF Len(w.net[idx].wire) < AvailableSpace(w.ctl.clients[idx])
    THEN Len(w.net[idx].wire)
    ELSE AvailableSpace(w.ctl.clients[idx])

(* the for loop of signal_controller_start over the client sockets that   *)
(* select reported readable                                                *)
RECURSIVE ClientLoop(_, _, _, _, _)
ClientLoop(w, readable, lo, hi, t) ==
    IF lo > hi THEN w
    ELSE IF lo = hi
    THEN IF /\ w.ctl.clients[lo].connected # 0
            /\ w.ctl.clients[lo].sockfd > 0
            /\ lo \in readable
         THEN ServeSlot(w, lo, RecvLen(w, lo), t)
         ELSE w
    ELSE LET left == ClientLoop(w, readable, lo, (lo + hi) \div 2, t)
         IN  IF left.ctl.client_count >= 0
             THEN ClientLoop(left, readable, (lo + hi) \div 2 + 1, hi, t)
             ELSE left

(* the for loop of signal_controller_start that sends the heartbeat query  *)
RECURSIVE QueryLoop(_, _, _)
QueryLoop(w, lo, hi) ==
    IF lo > hi THEN w
    ELSE IF lo = hi
    THEN IF w.ctl.clients[lo].connected # 0 THEN send_heartbeat_query(w, lo) ELSE w
    ELSE LET left == QueryLoop(w, lo, (lo + hi) \div 2)
         IN  IF left.ctl.client_count >= 0
             THEN QueryLoop(left, (lo + hi) \div 2 + 1, hi)
             ELSE left

(* the timer part with the difference of the times taken as a distance *)
HeartbeatRoundAnyStep(w, current_time) ==
    IF \/ current_time - w.ctl.last_heartbeat_check >= HEARTBEAT_INTERVAL
       \/ w.ctl.last_heartbeat_check - current_time >= HEARTBEAT_INTERVAL
    THEN [check_heartbeat_timeout(QueryLoop(w, 0, MAX_CLIENTS - 1), current_time)
             EXCEPT !.ctl.last_heartbeat_check = current_time]
    ELSE w

(* the timer part of the loop body of signal_controller_start *)
HeartbeatRound(w, current_time) ==
    IF current_time - w.ctl.last_heartbeat_check >= HEARTBEAT_INTERVAL
    THEN [check_heartbeat_timeout(QueryLoop(w, 0, MAX_CLIENTS - 1), current_time)
             EXCEPT !.ctl.last_heartbeat_check = current_time]
    ELSE w

(* the descriptor accept returns: the lowest one not in use (0..2 are the  *)
(* standard streams, 3 the listening socket)                               *)
NewFd(controller) ==
    FirstOf({fd \in 4..(4 + MAX_CLIENTS) :
                \A i \in Slots : controller.clients[i].connected = 0
                                 \/ controller.clients[i].sockfd # fd})

-----------------------------------------------------------------------------
(* vehicle_detector.h, vehicle_detector.c                                  *)

CONNECT_RETRY_INTERVAL == 5
REALTIME_UPLOAD_INTERVAL == 2
STATISTICS_UPLOAD_INTERVAL == 60
(* the literals of vehicle_detector_start: the silence of the server the   *)
(* client tolerates, and the timeout of its select                         *)
DetectorHeartbeatTimeout == 15
DetectorSelectTimeout == 1

vehicle_detector_init(admin_code, device_type, device_id) ==
    [device_id              |-> create_device_id(admin_code, device_type, device_id),
     server_id              |-> create_device_id(admin_code, DEVICE_TYPE_SIGNAL, 1),
     sockfd                 |-> -1,
     connected              |-> 0,
     running                |-> 0,
     last_connect_try       |-> 0,
     last_realtime_upload   |-> 0,
     last_statistics_upload |-> 0,
     last_heartbeat         |-> 0]

(* the socket of the client: accepting says whether the server takes a new *)
(* connection, peer_closed whether it closed this one, wire holds the      *)
(* bytes it sent that were not received yet; sent are the messages the     *)
(* client sent and closed says that it closed the socket, both in the      *)
(* current iteration of its loop; first holds the first message sent on    *)
(* the connection                                                          *)
NoLink == [accepting |-> TRUE, peer_closed |-> FALSE, wire |-> <<>>, sent |-> <<>>,
           closed |-> FALSE, first |-> <<>>]

(* what the model records of the reconnects: lost_at is the time the       *)
(* socket was lost (-1: it is not), refused says that the server did not   *)
(* take a connection since, recovered_in is the time the reconnect         *)
(* of the iteration before took (-1: none, or one the server refused      *)
(* first)                                                                  *)
NoLoss == [lost_at |-> -1, refused |-> FALSE, recovered_in |-> -1]

(* the client before vehicle_detector_start *)
ClientOff ==
    /\ det = vehicle_detector_init(ServerAdmin, DEVICE_TYPE_COIL, 1)
    /\ link = NoLink
    /\ d_obs = NoLoss

(* detector_connect(detector): create_tcp_client succeeds if the server    *)
(* accepts                                                                 *)
detector_connect(d, t) ==
    IF d.det.connected # 0 THEN [d |-> d, ret |-> 0]
    ELSE IF ~d.link.accepting THEN [d |-> [d EXCEPT !.det.sockfd = -1], ret |-> -1]
    ELSE [d   |-> [d EXCEPT !.det.sockfd = 3,
                            !.det.connected = 1,
                            !.det.last_heartbeat = t,
                            !.link.peer_closed = FALSE,
                            !.link.wire = <<>>,
                            !.link.first = <<>>],
          ret |-> 0]

detector_disconnect(d) ==
    IF d.det.connected # 0 /\ d.det.sockfd >= 0
    THEN [d EXCEPT !.det.sockfd = -1, !.det.connected = 0, !.link.closed = TRUE]
    ELSE d

(* send_message once the frame is encoded; fault = "send": send_all fails *)
SendEncoded(d, table, frame_len, fault) ==
    IF frame_len > 0 /\ fault # "send"
    THEN [d   |-> [d EXCEPT !.link.sent = Append(@, table),
                            !.link.first = IF @ = <<>> THEN <<table>> ELSE @],
          ret |-> 0]
    ELSE [d |-> d, ret |-> -1]

SendDataTable(d, table, fault) ==
    SendEncoded(d, table, encode_frame(table, MAX_FRAME_SIZE).ret, fault)

send_message(d, operation, object_id, content, content_len, fault) ==
    IF d.det.connected = 0 THEN [d |-> d, ret |-> -1]
    ELSE SendDataTable(d, create_data_table(d.det.device_id, d.det.server_id, operation,
                                            object_id, content, content_len), fault)

(* send_connection_request that sends a heartbeat response *)
SendResponseAsRequest(d, fault) ==
    send_message(d, OP_QUERY_RESPONSE, OBJ_COMMUNICATION, <<>>, 0, fault)

send_connection_request(d, fault) ==
    send_message(d, OP_SET_REQUEST, OBJ_COMMUNICATION, <<>>, 0, fault)

send_heartbeat_response(d, fault) ==
    send_message(d, OP_QUERY_RESPONSE, OBJ_COMMUNICATION, <<>>, 0, fault)

(* send_realtime_traffic_data and send_statistics_data: the content, made  *)
(* of simulated measurements, is left out                                  *)
send_realtime_traffic_data(d, fault) ==
    send_message(d, OP_UPLOAD, OBJ_TRAFFIC_REALTIME, <<>>, 0, fault)

send_statistics_data(d, fault) ==
    send_message(d, OP_UPLOAD, OBJ_TRAFFIC_STATS, <<>>, 0, fault)

(* the switch of handle_server_message on a decoded frame *)
HandleServerFrame(d, frame, t, fault) ==
    IF frame.object_id = OBJ_COMMUNICATION
    THEN [(IF frame.operation = OP_QUERY_REQUEST
           THEN send_heartbeat_response(d, fault).d
           ELSE d) EXCEPT !.det.last_heartbeat = t]
    ELSE d

(* handle_server_message after recv returned the bytes buffer *)
HandleReceived(d, dec, t, fault) ==
    IF dec.result # PROTOCOL_SUCCESS THEN [d |-> d, ret |-> 0]
    ELSE [d |-> HandleServerFrame(d, dec.frame, t, fault), ret |-> 0]

(* the bytes recv returns: what is on the wire, as far as the buffer of    *)
(* MAX_FRAME_SIZE bytes has room                                           *)
DetectorRecvLen(d) ==
    IF Len(d.link.wire) < MAX_FRAME_SIZE THEN Len(d.link.wire) ELSE MAX_FRAME_SIZE

(* handle_server_message(detector) when recv returns the first n bytes    *)
(* that are on the wire; fault = "recv": recv returns -1                   *)
ReceiveFromServer(d, n, t, fault) ==
    IF fault = "recv" \/ n <= 0 THEN [d |-> d, ret |-> -1]
    ELSE HandleReceived([d EXCEPT !.link.wire = SubSeq(@, n + 1, Len(@))],
                        decode_frame(SubSeq(d.link.wire, 1, n)), t, fault)

(* handle_server_message(detector) when recv returns all it can *)
handle_server_message(d, t, fault) ==
    ReceiveFromServer(d, DetectorRecvLen(d), t, fault)

(* the test for the next connection attempt with twice the interval *)
ConnectDueLate(d, current_time) ==
    current_time - d.det.last_connect_try >= 2 * CONNECT_RETRY_INTERVAL

(* the test of vehicle_detector_start for the next connection attempt *)
ConnectDue(d, current_time) ==
    current_time - d.det.last_connect_try >= CONNECT_RETRY_INTERVAL

(* the loop body of vehicle_detector_start from the uploads on *)
StatisticsUpload(d, current_time, fault) ==
    IF current_time - d.det.last_statistics_upload >= STATISTICS_UPLOAD_INTERVAL
    THEN [send_statistics_data(d, fault).d
             EXCEPT !.det.last_statistics_upload = current_time]
    ELSE d

RealtimeUpload(d, current_time, fault) ==
    IF current_time - d.det.last_realtime_upload >= REALTIME_UPLOAD_INTERVAL
    THEN [send_realtime_traffic_data(d, fault).d
             EXCEPT !.det.last_realtime_upload = current_time]
    ELSE d

Uploads(d, current_time, fault) ==
    StatisticsUpload(RealtimeUpload(d, current_time, fault), current_time, fault)

AfterServerMessage(r, current_time, fault) ==
    IF r.ret < 0 THEN detector_disconnect(r.d) ELSE Uploads(r.d, current_time, fault)

(* ... from if (detector->connected) on; fault = "select": select returns  *)
(* -1 with an errno other than EINTR                                       *)
ConnectedPart(d, current_time, fault) ==
    IF d.det.connected = 0 THEN d
    ELSE IF fault = "select" THEN detector_disconnect(d)
    ELSE IF d.link.wire # <<>> \/ d.link.peer_closed \/ fault = "recv"
    THEN AfterServerMessage(handle_server_message(d, current_time, fault),
                            current_time, fault)
    ELSE Uploads(d, current_time, fault)

(* ... after send_connection_request returned r *)
AfterConnectionRequest(r, current_time, fault) ==
    IF r.ret < 0
    THEN [detector_disconnect(r.d) EXCEPT !.det.last_connect_try = current_time]
    ELSE ConnectedPart([r.d EXCEPT !.det.last_connect_try = current_time],
                       current_time, fault)

(* ... that leaves last_connect_try as it is when detector_connect failed *)
AfterConnectUnstamped(r, current_time, fault) ==
    IF r.ret = 0
    THEN AfterConnectionRequest(send_connection_request(r.d, fault), current_time, fault)
    ELSE ConnectedPart(r.d, current_time, fault)

(* ... after detector_connect returned r *)
AfterConnect(r, current_time, fault) ==
    IF r.ret = 0
    THEN AfterConnectionRequest(send_connection_request(r.d, fault), current_time, fault)
    ELSE ConnectedPart([r.d EXCEPT !.det.last_connect_try = current_time],
                       current_time, fault)

(* the iteration without the check of the heartbeat timeout *)
IterationWithoutTimeout(d, current_time, fault) ==
    IF d.det.connected = 0
    THEN IF ConnectDue(d, current_time)
         THEN AfterConnect(detector_connect(d, current_time), current_time, fault)
         ELSE ConnectedPart(d, current_time, fault)
    ELSE ConnectedPart(d, current_time, fault)

(* one iteration of the while loop of vehicle_detector_start *)
DetectorIteration(d, current_time, fault) ==
    IF d.det.connected = 0
    THEN IF ConnectDue(d, current_time)
         THEN AfterConnect(detector_connect(d, current_time), current_time, fault)
         ELSE ConnectedPart(d, current_time, fault)
    ELSE IF current_time - d.det.last_heartbeat > DetectorHeartbeatTimeout
    THEN detector_disconnect(d)
    ELSE ConnectedPart(d, current_time, fault)

-----------------------------------------------------------------------------
(* The codec calls, applied to inputs drawn from bounded sets              *)

MaxBytesLen == 3        \* longest byte string given to escape_data
MaxContentLen == 2      \* longest enumerated content of a data table

(* the byte values the inputs are built from: the delimiter, the escape    *)
(* byte, the two escape codes and an ordinary byte                         *)
InputBytes == {FRAME_START, ESCAPE_CHAR, ESCAPE_START, ESCAPE_ESCAPE, 65}

SeqsUpTo(S, n) == UNION {[1..k -> S] : k \in 0..n}

Fill(byte, n) == [i \in 1..n |-> byte]

(* contents at the size limit and below it, of one repeated byte *)
LargeContents == {Fill(b, n) : b \in {FRAME_START, ESCAPE_CHAR, 65},
                               n \in {1000, MAX_CONTENT_SIZE}}

CodecContents == SeqsUpTo({FRAME_START, ESCAPE_CHAR, 65}, MaxContentLen)
                    \cup LargeContents

CodecSenders == {create_device_id(ServerAdmin, DEVICE_TYPE_COIL, 256),
                 create_device_id(16777215, ESCAPE_CHAR, FRAME_START)}

CodecTables ==
    {create_data_table(s, create_device_id(ServerAdmin, DEVICE_TYPE_SIGNAL, 1),
                       op, OBJ_COMMUNICATION, c, Len(c)) :
        s \in CodecSenders, op \in {OP_SET_REQUEST, OP_UPLOAD}, c \in CodecContents}

NoResult == [ret |-> 0, out |-> <<>>, oob |-> FALSE]
NoEncode == [ret |-> 0, buf |-> <<>>, oob |-> FALSE]
NoDecode == DecodeError(PROTOCOL_SUCCESS)

CodecIdle ==
    /\ c_esc = NoResult /\ c_unesc = NoResult
    /\ c_enc = NoEncode /\ c_dec = NoDecode

CodecOff ==
    /\ c_pc = "off" /\ c_b = <<>> /\ c_d = NoFrame
    /\ CodecIdle

InitCodec ==
    /\ ServerOff
    /\ ClientOff
    /\ c_pc \in {"bytes", "table"}
    /\ IF c_pc = "bytes"
       THEN c_b \in SeqsUpTo(InputBytes, MaxBytesLen) /\ c_d = NoFrame
       ELSE c_b = <<>> /\ c_d \in CodecTables
    /\ CodecIdle

(* n = escape_data(b, len, out, MAX_FRAME_SIZE) *)
CodecEscape ==
    /\ c_pc = "bytes"
    /\ c_esc' = escape_data(c_b, MAX_FRAME_SIZE)
    /\ c_pc' = "escaped"
    /\ UNCHANGED <<c_b, c_d, c_unesc, c_enc, c_dec, serverVars, clientVars>>

(* unescape_data(out, n, back, MAX_FRAME_SIZE) when escape_data returned n >= 0 *)
CodecUnescape ==
    /\ c_pc = "escaped"
    /\ c_unesc' = IF c_esc.ret < 0 THEN [ret |-> -1, out |-> <<>>, oob |-> FALSE]
                  ELSE unescape_data(c_esc.out, MAX_FRAME_SIZE)
    /\ c_pc' = "unescaped"
    /\ UNCHANGED <<c_b, c_d, c_esc, c_enc, c_dec, serverVars, clientVars>>

(* len = encode_frame(&frame, buffer, sizeof(buffer)), buffer of MAX_FRAME_SIZE *)
CodecEncode ==
    /\ c_pc = "table"
    /\ c_enc' = encode_frame(c_d, MAX_FRAME_SIZE)
    /\ c_pc' = "encoded"
    /\ UNCHANGED <<c_b, c_d, c_esc, c_unesc, c_dec, serverVars, clientVars>>

(* decode_frame(buffer, len, &decoded) when encode_frame returned len > 0 *)
CodecDecode ==
    /\ c_pc = "encoded"
    /\ c_dec' = IF c_enc.ret <= 0
                THEN DecodeError(PROTOCOL_ERROR_INVALID_PARAM)
                ELSE decode_frame(c_enc.buf)
    /\ c_pc' = "decoded"
    /\ UNCHANGED <<c_b, c_d, c_esc, c_unesc, c_enc, serverVars, clientVars>>

NextCodec == CodecEscape \/ CodecUnescape \/ CodecEncode \/ CodecDecode

SpecCodec == InitCodec /\ [][NextCodec]_vars

-----------------------------------------------------------------------------
(* Claims about the codec (SpecCodec)                                      *)

(* C4: every valid table (content of 0..1500 arbitrary bytes) is encoded   *)
(* with success, and decoding the output gives success and a table equal   *)
(* to it in every field.                                                   *)
C4_EncodeDecodeRoundTrip ==
    (c_pc = "decoded" /\ c_d.content_len <= MAX_CONTENT_SIZE) =>
        /\ c_enc.ret > 0
        /\ c_dec.result = PROTOCOL_SUCCESS
        /\ c_dec.frame = c_d

(* C5 as stated: for every byte sequence b, the empty one included,        *)
(* unescape_data of escape_data of b returns exactly b.                    *)
C5_EscapeRoundTripAnyInput ==
    c_pc = "unescaped" =>
        /\ c_esc.ret >= 0
        /\ c_unesc.ret = Len(c_b)
        /\ c_unesc.out = c_b

(* C5: for every non-empty byte sequence b and sufficient output capacity, *)
(* escape_data succeeds and unescape_data of its output returns exactly b; *)
(* escape_data rejects the empty sequence.                                 *)
C5_EscapeRoundTrip ==
    c_pc = "unescaped" =>
        IF c_b = <<>>
        THEN c_esc.ret = -1
        ELSE /\ c_esc.ret >= Len(c_b)
             /\ c_unesc.ret = Len(c_b)
             /\ c_unesc.out = c_b

(* a sequence with a delimiter and an escape byte went through both *)
C5_Witness ==
    /\ c_pc = "unescaped"
    /\ \E i, j \in 1..Len(c_b) : c_b[i] = FRAME_START /\ c_b[j] = ESCAPE_CHAR
    /\ c_esc.ret > Len(c_b)
    /\ c_unesc.out = c_b

(* C6: the bytes of a successful encode_frame start and end with 0xC0,     *)
(* hold no 0xC0 in between, and every 0xDB in between is followed by 0xDC  *)
(* or 0xDD.                                                                *)
C6_DelimitersOnlyAtEnds ==
    (c_pc \in {"encoded", "decoded"} /\ c_enc.ret > 0) =>
        LET buf == c_enc.buf
            n   == c_enc.ret
        IN  /\ n = Len(buf) /\ n >= 2
            /\ buf[1] = FRAME_START /\ buf[n] = FRAME_END
            /\ \A i \in 2..(n - 1) :
                  /\ buf[i] # FRAME_START
                  /\ buf[i] = ESCAPE_CHAR =>
                        i + 1 <= n - 1 /\ buf[i + 1] \in {ESCAPE_START, ESCAPE_ESCAPE}

(* a table with delimiter and escape bytes in its content was encoded *)
C6_Witness ==
    /\ c_pc = "encoded" /\ c_enc.ret > 0
    /\ \E i, j \in 1..Len(c_d.content) :
          c_d.content[i] = FRAME_START /\ c_d.content[j] = ESCAPE_CHAR
    /\ c_d.sender.device_id = FRAME_START

-----------------------------------------------------------------------------
(* The reassembler of one accepted connection, fed with a byte stream in   *)
(* chunks: every recv of handle_client_message returns some non-empty      *)
(* prefix of the bytes that are still on the wire.                         *)

MaxFrames == 2

(* the tables the peer sends: the sender of the second has a CRC whose     *)
(* high byte is 0x24, the payload of the third needs escaping              *)
StreamTables ==
    LET receiver == create_device_id(ServerAdmin, DEVICE_TYPE_SIGNAL, 1) IN
    { create_data_table(create_device_id(ServerAdmin, DEVICE_TYPE_COIL, 256), receiver,
                        OP_SET_REQUEST, OBJ_COMMUNICATION, <<>>, 0),
      create_data_table(create_device_id(ServerAdmin, DEVICE_TYPE_COIL, 105), receiver,
                        OP_QUERY_RESPONSE, OBJ_COMMUNICATION, <<>>, 0),
      create_data_table(create_device_id(ServerAdmin, DEVICE_TYPE_COIL, 256), receiver,
                        OP_UPLOAD, OBJ_TRAFFIC_REALTIME, <<FRAME_START, ESCAPE_CHAR>>, 2) }

(* bytes without a delimiter that precede a frame on the wire *)
StreamNoise == { <<ESCAPE_CHAR>>, <<65, ESCAPE_CHAR, ESCAPE_START, 66, 67>> }

(* frame_processing_test.c: the two bytes before the end delimiter are     *)
(* XORed with 0xFF                                                         *)
CorruptCrc(frame) ==
    LET n == Len(frame) IN
    [i \in 1..n |-> IF i = n - 2 \/ i = n - 1 THEN Xor8(frame[i], 255) ELSE frame[i]]

StreamItems ==
    {[table |-> t, noise |-> <<>>, corrupt |-> c] : t \in StreamTables, c \in BOOLEAN}
    \cup {[table |-> t, noise |-> n, corrupt |-> FALSE] : t \in StreamTables, n \in StreamNoise}

MaybeCorrupt(corrupt, frame) == IF corrupt THEN CorruptCrc(frame) ELSE frame

ItemBytes(item) ==
    item.noise \o MaybeCorrupt(item.corrupt, encode_frame(item.table, MAX_FRAME_SIZE).buf)

RECURSIVE StreamBytes(_)
StreamBytes(items) ==
    IF items = <<>> THEN <<>> ELSE ItemBytes(Head(items)) \o StreamBytes(Tail(items))

(* the controller and the connections as one value, and its assignment to *)
(* the variables                                                           *)
World == [ctl |-> ctl, net |-> net]

IsWorld(w) == ctl = w.ctl /\ net = w.net

BecomesWorld(w) == ctl' = w.ctl /\ net' = w.net

(* the server after signal_controller_init and the start of the loop *)
Started ==
    [ctl |-> [signal_controller_init(ServerAdmin, 1, 0) EXCEPT !.running = 1],
     net |-> [i \in Slots |-> NoConn]]

InitStream ==
    /\ CodecOff
    /\ ClientOff
    /\ now = 0
    /\ backlog = <<>>
    /\ obs = [i \in Slots |-> NoObs]
    /\ s_items \in UNION {[1..n -> StreamItems] : n \in 1..MaxFrames}
    /\ IsWorld(handle_new_connection(Started, 4,
                                     [NoConn EXCEPT !.wire = StreamBytes(s_items)], 0))

(* one pass of the client loop of signal_controller_start over slot 0 when *)
(* recv returns the next k bytes                                           *)
StreamRecv(k) ==
    /\ ctl.clients[0].connected # 0
    /\ k \in 1..Len(net[0].wire)
    /\ k <= AvailableSpace(ctl.clients[0])
    /\ BecomesWorld(ServeSlot(World, 0, k, now))
    /\ UNCHANGED <<codecVars, clientVars, now, backlog, obs, s_items>>

(* the peer closes after its last byte: recv returns 0 *)
StreamClose ==
    /\ ctl.clients[0].connected # 0
    /\ net[0].wire = <<>>
    /\ BecomesWorld(ServeSlot([World EXCEPT !.net[0].peer_closed = TRUE], 0, 0, now))
    /\ UNCHANGED <<codecVars, clientVars, now, backlog, obs, s_items>>

NextStream ==
    \/ \E k \in 1..Len(net[0].wire) : StreamRecv(k)
    \/ StreamClose

SpecStream == InitStream /\ [][NextStream]_vars

-----------------------------------------------------------------------------
(* Claims about the reassembler (SpecStream)                               *)

(* what process_single_frame was given on slot 0, as decode results *)
Handled == net[0].rx

Consumed == net[0].wire = <<>>

CleanStream ==
    /\ s_items # <<>>
    /\ \A i \in 1..Len(s_items) : s_items[i].noise = <<>> /\ ~s_items[i].corrupt

NoisyStream ==
    /\ \A i \in 1..Len(s_items) : ~s_items[i].corrupt
    /\ \E i \in 1..Len(s_items) : s_items[i].noise # <<>>

CorruptedStream ==
    /\ \A i \in 1..Len(s_items) : s_items[i].noise = <<>>
    /\ \E i \in 1..Len(s_items) : s_items[i].corrupt

(* the frames handled so far are the first frames of the stream, each once *)
DeliveredInOrder ==
    /\ Len(Handled) <= Len(s_items)
    /\ \A i \in 1..Len(Handled) :
          /\ Handled[i].result = PROTOCOL_SUCCESS
          /\ Handled[i].frame = s_items[i].table
    /\ Consumed => Len(Handled) = Len(s_items)

(* C1: a stream of valid frames, delivered in any partition into non-empty *)
(* chunks, reaches the frame handler as exactly those frames, in order,    *)
(* each once: at every moment the handled frames are a prefix of the sent  *)
(* ones, and all of them once the last byte is received.                   *)
C1_ChunkingPreservesFrames == CleanStream => DeliveredInOrder

(* a frame is handled while the first bytes of the next wait in the buffer *)
C1_Witness ==
    /\ CleanStream
    /\ Len(s_items) = 2 /\ Len(Handled) = 1
    /\ Handled[1].frame = s_items[1].table
    /\ ctl.clients[0].recv_buffer # <<>>
    /\ ~Consumed

(* C2: bytes without a delimiter before the first frame or between frames  *)
(* do not change the frames that reach the handler: they are the frames of *)
(* the stream, in order, each once, and no decode error is reported.       *)
C2_NoiseIsDiscarded == NoisyStream => DeliveredInOrder

(* both frames of a stream came through, each behind its noise *)
C2_Witness ==
    /\ NoisyStream
    /\ Len(s_items) = 2
    /\ \A i \in 1..2 : s_items[i].noise # <<>>
    /\ Consumed /\ Len(Handled) = 2
    /\ \A i \in 1..2 : Handled[i].frame = s_items[i].table

(* C3: in a stream of well-formed frames some of which have their CRC      *)
(* bytes corrupted, once the stream is received every position was handled *)
(* once: a CRC error at each corrupted position, the frame itself at the   *)
(* others.                                                                 *)
C3_CorruptionIsIsolated ==
    (CorruptedStream /\ Consumed) =>
        /\ Len(Handled) = Len(s_items)
        /\ \A i \in 1..Len(s_items) :
              IF s_items[i].corrupt
              THEN Handled[i].result = PROTOCOL_ERROR_CRC
              ELSE /\ Handled[i].result = PROTOCOL_SUCCESS
                   /\ Handled[i].frame = s_items[i].table

-----------------------------------------------------------------------------
(* The server loop with its clients.  Time is in whole seconds, as time()  *)
(* gives it; one step of ServerLoop is one iteration of the while loop of  *)
(* signal_controller_start, in which select returns after dt seconds.      *)

MaxTime == 22
MaxConn == 1

(* vehicle_detector.c: send_connection_request and send_heartbeat_response *)
ClientFrame(i, operation) ==
    create_data_table(create_device_id(ServerAdmin, DEVICE_TYPE_COIL, 256 + i),
                      create_device_id(ServerAdmin, DEVICE_TYPE_SIGNAL, 1),
                      operation, OBJ_COMMUNICATION, <<>>, 0)

WireBytes(table) == encode_frame(table, MAX_FRAME_SIZE).buf

IsHeartbeatQuery(table) ==
    table.operation = OP_QUERY_REQUEST /\ table.object_id = OBJ_COMMUNICATION

IsHandshake(dec) ==
    /\ dec.result = PROTOCOL_SUCCESS
    /\ dec.frame.operation = OP_SET_REQUEST
    /\ dec.frame.object_id = OBJ_COMMUNICATION

Connected(i) == ctl.clients[i].connected # 0

(* a query waits for the answer of a peer that answers *)
AnswerDue(i) ==
    Connected(i) /\ net[i].pending /\ net[i].responsive /\ ~net[i].peer_closed

Init ==
    /\ CodecOff
    /\ ClientOff
    /\ now = 0
    /\ ctl = [signal_controller_init(ServerAdmin, 1, 0) EXCEPT !.running = 1,
                                                              !.server_sockfd = 3]
    /\ net = [i \in Slots |-> NoConn]
    /\ backlog = <<>>
    /\ obs = [i \in Slots |-> NoObs]
    /\ s_items = <<>>

(* a client connects: the connection waits for accept *)
ClientConnect ==
    /\ Cardinality({i \in Slots : Connected(i)}) + Len(backlog) < MaxConn
    /\ backlog' = Append(backlog, NoConn)
    /\ UNCHANGED <<codecVars, clientVars, now, ctl, net, obs, s_items>>

(* the client of slot i sends its handshake *)
ClientHandshake(i) ==
    /\ Connected(i) /\ ~net[i].peer_closed /\ ~net[i].hs_sent
    /\ net' = [net EXCEPT ![i].wire = @ \o WireBytes(ClientFrame(i, OP_SET_REQUEST)),
                          ![i].hs_sent = TRUE]
    /\ UNCHANGED <<codecVars, clientVars, now, ctl, backlog, obs, s_items>>

(* the client of slot i answers the heartbeat query *)
ClientReply(i) ==
    /\ AnswerDue(i)
    /\ net' = [net EXCEPT ![i].wire = @ \o WireBytes(ClientFrame(i, OP_QUERY_RESPONSE)),
                          ![i].pending = FALSE]
    /\ UNCHANGED <<codecVars, clientVars, now, ctl, backlog, obs, s_items>>

(* the client of slot i stops answering *)
ClientSilent(i) ==
    /\ Connected(i) /\ net[i].responsive
    /\ net' = [net EXCEPT ![i].responsive = FALSE]
    /\ UNCHANGED <<codecVars, clientVars, now, ctl, backlog, obs, s_items>>

(* the client of slot i closes its socket *)
ClientClose(i) ==
    /\ Connected(i) /\ ~net[i].peer_closed
    /\ net' = [net EXCEPT ![i].peer_closed = TRUE]
    /\ UNCHANGED <<codecVars, clientVars, now, ctl, backlog, obs, s_items>>

(* the sockets select reports readable: data or an end of stream waits *)
Readable ==
    {i \in Slots : /\ Connected(i)
                   /\ ctl.clients[i].sockfd > 0
                   /\ (net[i].wire # <<>> \/ net[i].peer_closed)}

(* the world at select: what was sent and handled before is forgotten *)
AtSelect ==
    [ctl |-> ctl, net |-> [i \in Slots |-> [net[i] EXCEPT !.tx = <<>>, !.rx = <<>>]]]

(* the accept part of the loop body *)
AcceptRound(w, t) ==
    IF backlog # <<>> THEN handle_new_connection(w, NewFd(w.ctl), Head(backlog), t) ELSE w

(* one iteration of the while loop of signal_controller_start at time t,   *)
(* as the worlds it goes through: accepted after handle_new_connection,    *)
(* handled after the client loop, after at the end of the iteration        *)
IterationEnd(before, accepted, handled, readable, t) ==
    [before |-> before, accepted |-> accepted, handled |-> handled,
     after |-> HeartbeatRound(handled, t), readable |-> readable, t |-> t]

IterationClients(before, accepted, readable, t) ==
    IterationEnd(before, accepted,
                 ClientLoop(accepted, readable, 0, MAX_CLIENTS - 1, t), readable, t)

Iteration(before, readable, t) ==
    IterationClients(before, AcceptRound(before, t), readable, t)

GotHandshake(conn) == \E k \in 1..Len(conn.rx) : IsHandshake(conn.rx[k])

GotQuery(conn) == \E k \in 1..Len(conn.tx) : IsHeartbeatQuery(conn.tx[k])

(* what the iteration r did to slot i, added to the record o of the slot *)
ObserveAccept(o, i, r) ==
    IF r.before.ctl.clients[i].connected = 0 /\ r.accepted.ctl.clients[i].connected # 0
    THEN NoObs ELSE o

ObserveTraffic(o, i, r) ==
    IF GotHandshake(r.after.net[i])
    THEN [o EXCEPT !.hs_at = r.t, !.queried_at = -1, !.quiet = TRUE]
    ELSE IF i \in r.readable THEN [o EXCEPT !.quiet = FALSE]
    ELSE o

ObserveQuery(o, i, r) ==
    IF GotQuery(r.after.net[i]) /\ o.queried_at < 0
    THEN [o EXCEPT !.queried_at = r.t] ELSE o

(* a slot that is closed keeps only the record of a timeout *)
ObserveTimeout(o, i, r) ==
    IF r.handled.ctl.clients[i].connected # 0 /\ r.after.ctl.clients[i].connected = 0
    THEN [NoObs EXCEPT !.timed_out = TRUE, !.ended_at = r.t,
                       !.answering = r.after.net[i].responsive]
    ELSE IF r.after.ctl.clients[i].connected = 0 /\ ~o.timed_out THEN NoObs
    ELSE o

Observe(o, i, r) ==
    ObserveTimeout(ObserveQuery(ObserveTraffic(ObserveAccept(o, i, r), i, r), i, r), i, r)

(* the iteration r becomes the state; a query that went out waits for its  *)
(* answer                                                                  *)
Commit(r) ==
    /\ now' = r.t
    /\ ctl' = r.after.ctl
    /\ net' = [i \in Slots |->
                 IF r.after.ctl.clients[i].connected = 0 THEN NoConn
                 ELSE [r.after.net[i] EXCEPT !.pending = @ \/ GotQuery(r.after.net[i])]]
    /\ obs' = [i \in Slots |-> Observe(obs[i], i, r)]
    /\ backlog' = IF backlog # <<>> THEN Tail(backlog) ELSE backlog

(* one iteration of the while loop of signal_controller_start, dt seconds  *)
(* after the one before                                                    *)
ServerLoop(dt) ==
    /\ ctl.running = 1
    /\ now + dt <= MaxTime
    /\ \A i \in Slots : ~AnswerDue(i)
    /\ Commit(Iteration(AtSelect, Readable, now + dt))
    /\ UNCHANGED <<codecVars, clientVars, s_items>>

Next ==
    \/ ClientConnect
    \/ \E i \in Slots : ClientHandshake(i)
    \/ \E i \in Slots : ClientReply(i)
    \/ \E i \in Slots : ClientSilent(i)
    \/ \E i \in Slots : ClientClose(i)
    \/ \E dt \in 0..SELECT_TIMEOUT : ServerLoop(dt)

Spec == Init /\ [][Next]_vars

-----------------------------------------------------------------------------
(* Claims about the heartbeat of the server (Spec)                         *)

(* seconds since the last refresh of last_heartbeat of slot i *)
SilentFor(i) == now - ctl.clients[i].last_heartbeat

(* C7: a client that answers every heartbeat query before the next         *)
(* iteration of the server loop is never disconnected by                   *)
(* check_heartbeat_timeout.                                                *)
C7_AnsweringClientStays ==
    \A i \in Slots : obs[i].timed_out => ~obs[i].answering

(* a client that answers is connected for longer after its handshake than *)
(* any silent client can be, and its last refresh is recent                *)
C7_Witness ==
    \E i \in Slots :
        /\ Connected(i) /\ net[i].responsive /\ ~net[i].peer_closed
        /\ obs[i].hs_at >= 0
        /\ now - obs[i].hs_at > HEARTBEAT_TIMEOUT + HEARTBEAT_INTERVAL + SELECT_TIMEOUT
        /\ SilentFor(i) <= HEARTBEAT_INTERVAL + SELECT_TIMEOUT


(* C8: a connected client whose last_heartbeat is no longer refreshed is   *)
(* disconnected by the timeout check no earlier than HEARTBEAT_TIMEOUT and *)
(* no later than HEARTBEAT_TIMEOUT + HEARTBEAT_INTERVAL + one tick after   *)
(* the last refresh.                                                       *)
C8_TimeoutWindow ==
    \A i \in Slots :
        /\ obs[i].timed_out =>
              /\ obs[i].ended_at - ctl.clients[i].last_heartbeat >= HEARTBEAT_TIMEOUT
              /\ obs[i].ended_at - ctl.clients[i].last_heartbeat
                    <= HEARTBEAT_TIMEOUT + HEARTBEAT_INTERVAL + SELECT_TIMEOUT
        /\ Connected(i) =>
              SilentFor(i) <= HEARTBEAT_TIMEOUT + HEARTBEAT_INTERVAL + SELECT_TIMEOUT

(* a client that stopped answering was disconnected by the timeout check   *)
(* as late as the check ever is                                            *)
C8_Witness ==
    \E i \in Slots :
        /\ obs[i].timed_out /\ ~obs[i].answering /\ ~Connected(i)
        /\ obs[i].ended_at - ctl.clients[i].last_heartbeat
              = HEARTBEAT_TIMEOUT + HEARTBEAT_INTERVAL

(* C9: after the handshake of a client from which nothing else arrives,    *)
(* the server sends it a heartbeat query within HEARTBEAT_INTERVAL plus    *)
(* one tick.                                                               *)
C9_QueryAfterHandshake ==
    \A i \in Slots :
        (Connected(i) /\ obs[i].hs_at >= 0 /\ obs[i].quiet) =>
            IF obs[i].queried_at >= 0
            THEN obs[i].queried_at - obs[i].hs_at <= HEARTBEAT_INTERVAL + SELECT_TIMEOUT
            ELSE now - obs[i].hs_at <= HEARTBEAT_INTERVAL + SELECT_TIMEOUT

(* the first query after a handshake went out a whole interval later, to a *)
(* client that sent nothing in between                                     *)
C9_Witness ==
    \E i \in Slots :
        /\ Connected(i) /\ obs[i].hs_at >= 0 /\ obs[i].quiet
        /\ obs[i].queried_at - obs[i].hs_at = HEARTBEAT_INTERVAL
        /\ GotQuery(net[i])

-----------------------------------------------------------------------------
(* The loop of vehicle_detector_start against a server that accepts or     *)
(* refuses connections, sends, and closes.  The clock starts at Boot, so   *)
(* that the time stamps vehicle_detector_init set to 0 are long ago.       *)

Boot == 60
MaxRun == 17
MaxPending == 1

(* the heartbeat query of the server *)
ServerQuery ==
    create_data_table(create_device_id(ServerAdmin, DEVICE_TYPE_SIGNAL, 1),
                      det.device_id, OP_QUERY_REQUEST, OBJ_COMMUNICATION, <<>>, 0)

IsConnectionRequest(table) ==
    table.operation = OP_SET_REQUEST /\ table.object_id = OBJ_COMMUNICATION

SentHandshake(l) == \E k \in 1..Len(l.sent) : IsConnectionRequest(l.sent[k])

InitClient ==
    /\ CodecOff
    /\ now = Boot
    /\ ctl = signal_controller_init(ServerAdmin, 1, 0)
    /\ net = [i \in Slots |-> NoConn]
    /\ backlog = <<>>
    /\ obs = [i \in Slots |-> NoObs]
    /\ s_items = <<>>
    /\ det = [vehicle_detector_init(ServerAdmin, DEVICE_TYPE_COIL, 1) EXCEPT !.running = 1]
    /\ link = NoLink
    /\ d_obs = NoLoss

(* the client at the top of an iteration of its loop *)
AtLoopTop == [det |-> det, link |-> [link EXCEPT !.sent = <<>>, !.closed = FALSE]]

(* the reconnect of the iteration from before to after at time t: a        *)
(* handshake went out, or the attempt that was due did not get that far    *)
ObserveReconnect(o, before, after, t) ==
    IF o.lost_at < 0 THEN [o EXCEPT !.recovered_in = -1]
    ELSE IF SentHandshake(after.link)
    THEN [lost_at |-> -1, refused |-> FALSE,
          recovered_in |-> IF o.refused THEN -1 ELSE t - o.lost_at]
    ELSE IF before.det.connected = 0 /\ ConnectDue(before, t)
    THEN [o EXCEPT !.refused = TRUE]
    ELSE o

(* the loss of the socket in that iteration *)
ObserveLoss(o, before, after, t) ==
    IF ~after.link.closed THEN o
    ELSE IF before.det.connected # 0 \/ SentHandshake(after.link)
    THEN [o EXCEPT !.lost_at = t, !.refused = FALSE]
    ELSE [o EXCEPT !.lost_at = IF @ < 0 THEN t ELSE @, !.refused = TRUE]

CommitDetector(before, after, t) ==
    /\ now' = t
    /\ det' = after.det
    /\ link' = after.link
    /\ d_obs' = ObserveLoss(ObserveReconnect(d_obs, before, after, t), before, after, t)

(* one iteration of the while loop of vehicle_detector_start, dt seconds   *)
(* after the one before                                                    *)
DetectorLoop(dt, fault) ==
    /\ det.running = 1
    /\ now + dt <= Boot + MaxRun
    /\ fault # "none" => det.connected # 0 \/ link.accepting
    /\ CommitDetector(AtLoopTop, DetectorIteration(AtLoopTop, now + dt, fault), now + dt)
    /\ UNCHANGED <<codecVars, ctl, net, backlog, obs, s_items>>

(* the server sends a heartbeat query to the client *)
ServerSend ==
    /\ det.connected # 0 /\ ~link.peer_closed
    /\ Len(link.wire) < MaxPending * Len(WireBytes(ServerQuery))
    /\ link' = [link EXCEPT !.wire = @ \o WireBytes(ServerQuery)]
    /\ UNCHANGED <<codecVars, serverVars, det, d_obs>>

(* the server closes the connection *)
ServerClose ==
    /\ det.connected # 0 /\ ~link.peer_closed
    /\ link' = [link EXCEPT !.peer_closed = TRUE]
    /\ UNCHANGED <<codecVars, serverVars, det, d_obs>>

(* the server stops or starts to accept connections *)
ServerListen ==
    /\ link' = [link EXCEPT !.accepting = ~@]
    /\ UNCHANGED <<codecVars, serverVars, det, d_obs>>

NextClient ==
    \/ \E dt \in 0..DetectorSelectTimeout, fault \in {"none", "recv", "send", "select"} :
          DetectorLoop(dt, fault)
    \/ ServerSend
    \/ ServerClose
    \/ ServerListen

SpecClient == InitClient /\ [][NextClient]_vars

-----------------------------------------------------------------------------
(* Claims about the reconnect of the client (SpecClient)                   *)

(* C10: a client that lost its socket, and that the server has not refused *)
(* since, connects again and sends a new handshake within                  *)
(* CONNECT_RETRY_INTERVAL plus one tick of its loop.                       *)
C10_ReconnectInTime ==
    /\ (det.running = 1 /\ d_obs.lost_at >= 0 /\ ~d_obs.refused) =>
          now - d_obs.lost_at <= CONNECT_RETRY_INTERVAL + DetectorSelectTimeout
    /\ d_obs.recovered_in <= CONNECT_RETRY_INTERVAL + DetectorSelectTimeout

(* the client is connected again and has sent its handshake, a whole       *)
(* retry interval after it lost the socket                                 *)
C10_Witness ==
    /\ det.connected # 0
    /\ SentHandshake(link)
    /\ d_obs.recovered_in = CONNECT_RETRY_INTERVAL

(* C11: the first frame the client sends on a connection is SET_REQ on     *)
(* COMMUNICATION, a connected client has sent it, and a connection on      *)
(* which nothing was sent yet is closed in the iteration that opened it.   *)
C11_HandshakeFirst ==
    /\ link.first # <<>> => IsConnectionRequest(link.first[1])
    /\ det.connected # 0 => link.first # <<>>
    /\ link.first = <<>> => link.sent = <<>>

(* the client has sent an upload, in a later iteration, on a connection    *)
(* that began with the handshake                                           *)
C11_Witness ==
    /\ det.connected # 0
    /\ ~SentHandshake(link)
    /\ \E k \in 1..Len(link.sent) : link.sent[k].operation = OP_UPLOAD
    /\ IsConnectionRequest(link.first[1])

-----------------------------------------------------------------------------
(* Claims about the frames the server handles (Spec)                       *)

(* the handshakes handled and the connection answers sent on a connection  *)
(* in the last iteration of the server loop                                *)
Handshakes(conn) == {k \in 1..Len(conn.rx) : IsHandshake(conn.rx[k])}

ConnectionAnswers(conn) ==
    {k \in 1..Len(conn.tx) : /\ conn.tx[k].operation = OP_SET_RESPONSE
                             /\ conn.tx[k].object_id = OBJ_COMMUNICATION}

(* C12: when the server has decoded a SET_REQ on COMMUNICATION, the slot    *)
(* holds the sender of the frame as device_id, its last_heartbeat is the   *)
(* time of the handling, and one SET_RESP on COMMUNICATION went out, from  *)
(* the DeviceId of the server to the recorded one.                         *)
C12_HandshakeAnswered ==
    \A i \in Slots :
        (Connected(i) /\ ~net[i].peer_closed /\ Handshakes(net[i]) # {}) =>
            /\ \A k \in Handshakes(net[i]) :
                  ctl.clients[i].device_id = net[i].rx[k].frame.sender
            /\ ctl.clients[i].last_heartbeat = now
            /\ Cardinality(ConnectionAnswers(net[i])) = Cardinality(Handshakes(net[i]))
            /\ \A k \in ConnectionAnswers(net[i]) :
                  /\ net[i].tx[k].sender = ctl.device_id
                  /\ net[i].tx[k].receiver = ctl.clients[i].device_id
                  /\ net[i].tx[k].content_len = 0

(* the server has handled the handshake of a client and answered it *)
C12_Witness ==
    \E i \in Slots :
        /\ Connected(i) /\ ~net[i].peer_closed
        /\ Handshakes(net[i]) # {}
        /\ ConnectionAnswers(net[i]) # {}
        /\ ctl.clients[i].device_id = ClientFrame(i, OP_SET_REQUEST).sender


-----------------------------------------------------------------------------
(* The reassembler and the frame handler of one accepted connection, fed   *)
(* with streams in which the first frame may be damaged and sound frames   *)
(* follow.  The connection was accepted at time 0 and is served at         *)
(* TrafficTime.                                                            *)

TrafficTime == 3

TrafficTable(id, operation, object_id, content) ==
    create_data_table(create_device_id(ServerAdmin, DEVICE_TYPE_COIL, id),
                      create_device_id(ServerAdmin, DEVICE_TYPE_SIGNAL, 1),
                      operation, object_id, content, Len(content))

(* the CRC of the table of sender 50 has the high byte 0x3F, that of       *)
(* sender 105 the high byte 0x24                                           *)
DamagedTables ==
    { TrafficTable(256, OP_SET_REQUEST, OBJ_COMMUNICATION, <<>>),
      TrafficTable(50, OP_SET_REQUEST, OBJ_COMMUNICATION, <<>>),
      TrafficTable(105, OP_QUERY_RESPONSE, OBJ_COMMUNICATION, <<>>) }

SoundTables ==
    DamagedTables \cup
    { TrafficTable(256, OP_QUERY_REQUEST, OBJ_COMMUNICATION, <<>>),
      TrafficTable(256, OP_UPLOAD, OBJ_TRAFFIC_REALTIME, <<1, 2>>),
      TrafficTable(256, OP_UPLOAD, OBJ_TRAFFIC_STATS, <<7>>),
      TrafficTable(256, OP_UPLOAD, OBJ_DETECTOR_STATUS, <<>>) }

FollowingTables ==
    { TrafficTable(256, OP_SET_REQUEST, OBJ_COMMUNICATION, <<>>),
      TrafficTable(256, OP_UPLOAD, OBJ_TRAFFIC_STATS, <<7>>) }

(* a 0xDB that no escape code follows, in place of the second byte *)
BadEscape(frame) ==
    [i \in 1..Len(frame) |-> IF i = 2 THEN ESCAPE_CHAR ELSE frame[i]]

(* the frame cut off inside its header, then closed *)
TruncatedHeader(frame) == SubSeq(frame, 1, 6) \o <<FRAME_END>>

Damaged(damage, frame) ==
    CASE damage = "crc" -> CorruptCrc(frame)
      [] damage = "escape" -> BadEscape(frame)
      [] damage = "header" -> TruncatedHeader(frame)
      [] OTHER -> frame

Sound(table) == [table |-> table, damage |-> "none"]

TrafficItems ==
    {[table |-> t, damage |-> d] : t \in DamagedTables, d \in {"crc", "escape", "header"}}
    \cup {Sound(t) : t \in SoundTables}

TrafficStreams ==
    UNION {{<<f>> \o rest : f \in TrafficItems,
                             rest \in [1..n -> {Sound(t) : t \in FollowingTables}]} :
           n \in 0..(MaxFrames - 1)}

RECURSIVE TrafficBytes(_)
TrafficBytes(items) ==
    IF items = <<>> THEN <<>>
    ELSE Damaged(Head(items).damage, encode_frame(Head(items).table, MAX_FRAME_SIZE).buf)
         \o TrafficBytes(Tail(items))

InitTraffic ==
    /\ CodecOff
    /\ ClientOff
    /\ now = TrafficTime
    /\ backlog = <<>>
    /\ obs = [i \in Slots |-> NoObs]
    /\ s_items \in TrafficStreams
    /\ IsWorld(handle_new_connection(Started, 4,
                                     [NoConn EXCEPT !.wire = TrafficBytes(s_items)], 0))

SpecTraffic == InitTraffic /\ [][NextStream]_vars

-----------------------------------------------------------------------------
(* Claims about decode failures at the server (SpecTraffic)                *)

IsFailure(dec) == dec.result # PROTOCOL_SUCCESS

IsErrorResponse(table) == table.operation = OP_ERROR_RESPONSE

SessionOpen == ctl.clients[0].connected # 0 /\ ctl.clients[0].sockfd > 0

(* the sound frame at position i of the stream reached the handler *)
Emitted(i) ==
    \E k \in 1..Len(Handled) :
        Handled[k].result = PROTOCOL_SUCCESS /\ Handled[k].frame = s_items[i].table

(* C13: a frame that fails to decode does not end the session: as long as  *)
(* the peer has not closed, the slot is connected and its socket open      *)
(* after a decode failure, and once the stream is received the sound       *)
(* frames that followed the failure were handled.                          *)
C13_DecodeFailureKeepsSession ==
    ((\E k \in 1..Len(Handled) : IsFailure(Handled[k])) /\ ~net[0].peer_closed) =>
        /\ SessionOpen
        /\ Consumed => \A i \in 2..Len(s_items) : Emitted(i)

(* C14: each decode failure is answered by one ERROR_RESP on object 0 with *)
(* one content byte, and the byte is 3 only for a CRC mismatch.            *)
C14_ErrorCodeOfFailure ==
    LET fails == SelectSeq(Handled, IsFailure)
        errs == SelectSeq(net[0].tx, IsErrorResponse)
    IN  /\ Len(errs) = Len(fails)
        /\ \A j \in 1..Len(errs) :
              /\ errs[j].object_id = 0
              /\ errs[j].content_len = 1
              /\ errs[j].content[1] = ERROR_CRC => fails[j].result = PROTOCOL_ERROR_CRC

(* C15: a malformed first frame costs only its own bytes: once the stream  *)
(* is received, every sound frame of the stream was emitted.               *)
C15_MalformedFrameIsIsolated ==
    Consumed => \A i \in 1..Len(s_items) : s_items[i].damage = "none" => Emitted(i)

-----------------------------------------------------------------------------
(* The reassembler fed with more bytes than the receive buffer holds: a    *)
(* run of bytes without a delimiter, or a frame longer than the buffer,    *)
(* open or closed, and a sound frame after it.  recv returns at most the   *)
(* bytes of one of OverflowChunks.                                         *)

OverflowExtra == 100

Junk(n) == [i \in 1..n |-> 65]

Oversize(kind) ==
    CASE kind = "noise" -> Junk(CLIENT_RECV_BUFFER_SIZE + 1)
      [] kind = "open" -> <<FRAME_START>> \o Junk(CLIENT_RECV_BUFFER_SIZE + OverflowExtra)
      [] kind = "closed" -> <<FRAME_START>> \o Junk(CLIENT_RECV_BUFFER_SIZE + OverflowExtra)
                            \o <<FRAME_END>>

OverflowChunks == {OverflowExtra, 10 * OverflowExtra, CLIENT_RECV_BUFFER_SIZE}

InitOverflow ==
    /\ CodecOff
    /\ ClientOff
    /\ now = TrafficTime
    /\ backlog = <<>>
    /\ obs = [i \in Slots |-> NoObs]
    /\ s_items \in {<<[table |-> t, damage |-> kind], Sound(t)>> :
                       t \in FollowingTables, kind \in {"noise", "open", "closed"}}
    /\ IsWorld(handle_new_connection(
                   Started, 4,
                   [NoConn EXCEPT !.wire = Oversize(s_items[1].damage)
                                           \o TrafficBytes(Tail(s_items))], 0))

(* recv returns c bytes, or fewer when fewer are on the wire or fit *)
RecvAtMost(c) ==
    StreamRecv(IF c < RecvLen(World, 0) THEN c ELSE RecvLen(World, 0))

NextOverflow ==
    \/ \E c \in OverflowChunks : RecvAtMost(c)
    \/ StreamClose

SpecOverflow == InitOverflow /\ [][NextOverflow]_vars

(* C16: when more bytes arrive than the receive buffer holds without a     *)
(* frame being completed, nothing is handled for them and the sound frame  *)
(* the peer sends afterwards is handled: once the stream is received, the  *)
(* handler saw that frame and nothing else.                                *)
C16_OverflowRecovers ==
    Consumed => Len(Handled) = 1 /\ Emitted(2)

-----------------------------------------------------------------------------
(* The connected client and the frames the server sends it, delivered by   *)
(* recv in any partition into non-empty chunks.                            *)

ServerTable(operation, object_id) ==
    create_data_table(create_device_id(ServerAdmin, DEVICE_TYPE_SIGNAL, 1),
                      create_device_id(ServerAdmin, DEVICE_TYPE_COIL, 1),
                      operation, object_id, <<>>, 0)

(* signal_controller.c: the answers to the handshake and to the statistics *)
(* upload, and the heartbeat query                                         *)
ServerTables ==
    { ServerTable(OP_SET_RESPONSE, OBJ_COMMUNICATION),
      ServerTable(OP_UPLOAD_RESPONSE, OBJ_TRAFFIC_STATS),
      ServerTable(OP_QUERY_REQUEST, OBJ_COMMUNICATION) }

RECURSIVE TablesBytes(_)
TablesBytes(tables) ==
    IF tables = <<>> THEN <<>> ELSE WireBytes(Head(tables)) \o TablesBytes(Tail(tables))

Detector == [det |-> det, link |-> link]

IsDetector(d) == det = d.det /\ link = d.link

BecomesDetector(d) == det' = d.det /\ link' = d.link

(* the client after the first iteration of its loop, in which it connected *)
(* and sent the handshake                                                  *)
ConnectedDetector ==
    DetectorIteration(
        [det |-> [vehicle_detector_init(ServerAdmin, DEVICE_TYPE_COIL, 1) EXCEPT !.running = 1],
         link |-> NoLink],
        Boot, "none")

InitReads ==
    /\ CodecOff
    /\ now = Boot
    /\ ctl = signal_controller_init(ServerAdmin, 1, 0)
    /\ net = [i \in Slots |-> NoConn]
    /\ backlog = <<>>
    /\ obs = [i \in Slots |-> NoObs]
    /\ d_obs = NoLoss
    /\ s_items \in UNION {[1..n -> ServerTables] : n \in 1..MaxFrames}
    /\ IsDetector([ConnectedDetector EXCEPT !.link.wire = TablesBytes(s_items)])

(* one iteration of the loop of vehicle_detector_start in which recv       *)
(* returns the next k bytes                                                *)
ClientRecv(k) ==
    /\ det.connected # 0
    /\ k \in 1..DetectorRecvLen(Detector)
    /\ BecomesDetector(AfterServerMessage(ReceiveFromServer(Detector, k, now, "none"),
                                          now, "none"))
    /\ UNCHANGED <<codecVars, serverVars, d_obs>>

NextReads == \E k \in 1..Len(link.wire) : ClientRecv(k)

SpecReads == InitReads /\ [][NextReads]_vars

IsHeartbeatResponse(table) ==
    table.operation = OP_QUERY_RESPONSE /\ table.object_id = OBJ_COMMUNICATION

(* C17: however recv cuts the stream of the server into reads, the client  *)
(* handles every frame of it: once all bytes are read, it has answered     *)
(* each heartbeat query of the stream with one QUERY_RESP on COMMUNICATION.*)
C17_EveryQueryAnswered ==
    link.wire = <<>> =>
        Cardinality({k \in 1..Len(link.sent) : IsHeartbeatResponse(link.sent[k])})
            = Cardinality({i \in 1..Len(s_items) : IsHeartbeatQuery(s_items[i])})

-----------------------------------------------------------------------------
(* Claims about the answers of the server to the frames it handles         *)
(* (SpecTraffic)                                                           *)

IsUpload(dec, object_id) ==
    /\ dec.result = PROTOCOL_SUCCESS
    /\ dec.frame.operation = OP_UPLOAD
    /\ dec.frame.object_id = object_id

IsAnsweredUpload(dec) ==
    IsUpload(dec, OBJ_TRAFFIC_STATS) \/ IsUpload(dec, OBJ_DETECTOR_STATUS)

IsUploadResponse(table) == table.operation = OP_UPLOAD_RESPONSE

(* the handled frames the server answers at all: decode failures,          *)
(* handshakes, and the uploads of statistics and of the detector status    *)
Answered(dec) == IsFailure(dec) \/ IsHandshake(dec) \/ IsAnsweredUpload(dec)

(* C18: the server answers each UPLOAD on TRAFFIC_STATS and on             *)
(* DETECTOR_STATUS it handles with one UPLOAD_RESP on the same object with *)
(* empty content, in the order of the uploads, and sends nothing for an    *)
(* UPLOAD on TRAFFIC_REALTIME: the frames it sent are as many as the       *)
(* handled frames other than realtime uploads, heartbeat answers and       *)
(* queries.                                                                *)
C18_UploadAnswers ==
    LET ups == SelectSeq(Handled, IsAnsweredUpload)
        resp == SelectSeq(net[0].tx, IsUploadResponse)
    IN  /\ Len(resp) = Len(ups)
        /\ \A j \in 1..Len(resp) :
              /\ resp[j].object_id = ups[j].frame.object_id
              /\ resp[j].content_len = 0
              /\ resp[j].content = <<>>
        /\ Len(net[0].tx) = Cardinality({k \in 1..Len(Handled) : Answered(Handled[k])})

(* a realtime upload and a statistics upload were handled, one answer sent *)
C18_Witness ==
    /\ Len(Handled) = 2
    /\ IsUpload(Handled[1], OBJ_TRAFFIC_REALTIME)
    /\ IsUpload(Handled[2], OBJ_TRAFFIC_STATS)
    /\ Len(net[0].tx) = 1
    /\ net[0].tx[1].operation = OP_UPLOAD_RESPONSE
    /\ net[0].tx[1].object_id = OBJ_TRAFFIC_STATS

(* C19: a well-formed frame on COMMUNICATION that the server handles,      *)
(* whatever its operation, sets last_heartbeat of the slot to the time it  *)
(* is handled at.                                                          *)
C19_CommunicationRefreshes ==
    (\E k \in 1..Len(Handled) :
        /\ Handled[k].result = PROTOCOL_SUCCESS
        /\ Handled[k].frame.object_id = OBJ_COMMUNICATION)
    => ctl.clients[0].last_heartbeat = now

-----------------------------------------------------------------------------
(* C20: the server sends its heartbeat queries to established sessions     *)
(* only: a connected slot that was sent a QUERY_REQ on COMMUNICATION is    *)
(* one whose handshake the server has received.                            *)
C20_QueriesOnlyAfterHandshake ==
    \A i \in Slots : (Connected(i) /\ GotQuery(net[i])) => obs[i].hs_at >= 0

-----------------------------------------------------------------------------
(* The session table at its capacity: connections arrive at a server whose *)
(* slots are all taken or nearly so, and the clients of a few slots close. *)
(* s_items lists the sockets handle_new_connection closed for want of a    *)
(* slot.                                                                   *)

MaxRejected == 2
MaxFullTime == 2

(* the slots whose clients may close *)
LeavingSlots == {0, 1, MAX_CLIENTS - 1}

(* handle_new_connection of a connection on the lowest free descriptor *)
AcceptNext(w, t) == handle_new_connection(w, NewFd(w.ctl), NoConn, t)

RECURSIVE AcceptMany(_, _)
AcceptMany(w, n) ==
    IF n = 0 THEN w
    ELSE IF n = 1 THEN AcceptNext(w, 0)
    ELSE LET left == AcceptMany(w, n \div 2)
         IN  IF left.ctl.client_count >= 0 THEN AcceptMany(left, n - (n \div 2)) ELSE left

InitFull ==
    /\ CodecOff
    /\ ClientOff
    /\ now = 0
    /\ backlog = <<>>
    /\ obs = [i \in Slots |-> NoObs]
    /\ s_items = <<>>
    /\ \E n \in {MAX_CLIENTS - 1, MAX_CLIENTS} : IsWorld(AcceptMany(Started, n))

(* the listener is readable: handle_new_connection *)
Arrive ==
    /\ Len(s_items) < MaxRejected
    /\ BecomesWorld(AcceptNext(World, now))
    /\ s_items' = IF FreeSlots(World) = {} THEN Append(s_items, NewFd(ctl)) ELSE s_items
    /\ UNCHANGED <<codecVars, clientVars, now, backlog, obs>>

(* the client of slot i closes and the client loop serves the slot *)
Leave(i) ==
    /\ ctl.clients[i].connected # 0
    /\ BecomesWorld(ServeSlot([World EXCEPT !.net[i].peer_closed = TRUE], i, 0, now))
    /\ UNCHANGED <<codecVars, clientVars, now, backlog, obs, s_items>>

(* a second passes *)
Tick ==
    /\ now < MaxFullTime
    /\ now' = now + 1
    /\ UNCHANGED <<codecVars, clientVars, ctl, net, backlog, obs, s_items>>

NextFull ==
    \/ Arrive
    \/ \E i \in LeavingSlots : Leave(i)
    \/ Tick

SpecFull == InitFull /\ [][NextFull]_vars

ConnectedSlots == {i \in Slots : ctl.clients[i].connected # 0}

-----------------------------------------------------------------------------
(* C22: a connected client never outlives the heartbeat timeout: the       *)
(* iteration of its loop that finds last_heartbeat more than 15 s old      *)
(* closes the socket, leaves the client disconnected, sends nothing, and   *)
(* leaves the connection attempt due for the next iteration.               *)
C22_ClientHeartbeatTimeout ==
    /\ [](det.connected # 0 => now - det.last_heartbeat <= DetectorHeartbeatTimeout)
    /\ [][(det.connected # 0 /\ now' - det.last_heartbeat > DetectorHeartbeatTimeout)
          => /\ det'.connected = 0
             /\ det'.sockfd = -1
             /\ link'.closed
             /\ link'.sent = <<>>
             /\ now' - det'.last_connect_try >= CONNECT_RETRY_INTERVAL]_vars

(* the client has just given up a connection on which nothing arrived for  *)
(* more than 15 s                                                          *)
C22_Witness ==
    /\ det.running = 1
    /\ det.connected = 0
    /\ link.closed
    /\ link.sent = <<>>
    /\ det.last_heartbeat >= Boot
    /\ now - det.last_heartbeat = DetectorHeartbeatTimeout + 1

-----------------------------------------------------------------------------
(* A client that stops reading.  The sockets of the server are blocking    *)
(* (set_nonblocking is never called) and send_all calls send until every    *)
(* byte is written: when the buffers of a socket hold SendCapacity frames   *)
(* the peer has not read, the send does not return before the peer reads.   *)
(* In this specification tx of a connection holds the frames written and    *)
(* not yet read by the peer, a connection that is not responsive never      *)
(* reads, and s_items holds the slot whose send has not returned.           *)

SendCapacity == 2

MaxStallTime == 6

MaxStallConn == 2

(* the slots on whose socket more was written than its buffers hold *)
Overfull(w) == {i \in Slots : Len(w.net[i].tx) > SendCapacity}

(* the client loop of signal_controller_start, as far as it gets: up to    *)
(* the first slot whose send does not return                                *)
StallClients(accepted, handled, readable, t) ==
    IF Overfull(handled) = {} THEN handled
    ELSE ClientLoop(accepted, readable, 0, FirstOf(Overfull(handled)), t)

(* the timer part of the loop body, as far as it gets *)
StallQueries(handled, queried, t) ==
    IF Overfull(handled) # {} THEN handled
    ELSE IF t - handled.ctl.last_heartbeat_check < HEARTBEAT_INTERVAL THEN handled
    ELSE IF Overfull(queried) = {} THEN HeartbeatRound(handled, t)
    ELSE QueryLoop(handled, 0, FirstOf(Overfull(queried)))

StallTimer(handled, t) ==
    StallQueries(handled, QueryLoop(handled, 0, MAX_CLIENTS - 1), t)

StallHandled(accepted, readable, t) ==
    StallTimer(StallClients(accepted, ClientLoop(accepted, readable, 0, MAX_CLIENTS - 1, t),
                            readable, t), t)

(* one iteration of the while loop of signal_controller_start at time t,   *)
(* to its end or to the send that does not return                           *)
StallIteration(w, readable, t) == StallHandled(AcceptRound(w, t), readable, t)

(* the connections after the iteration: a full socket holds what its       *)
(* buffers hold                                                             *)
StallNet(w) ==
    [i \in Slots |->
        IF w.ctl.clients[i].connected = 0 THEN NoConn
        ELSE IF Len(w.net[i].tx) > SendCapacity
        THEN [w.net[i] EXCEPT !.tx = SubSeq(@, 1, SendCapacity), !.rx = <<>>]
        ELSE [w.net[i] EXCEPT !.rx = <<>>]]

StallCommit(w, t) ==
    /\ now' = t
    /\ ctl' = w.ctl
    /\ net' = StallNet(w)
    /\ s_items' = IF Overfull(w) = {} THEN <<>> ELSE <<FirstOf(Overfull(w))>>
    /\ backlog' = IF backlog # <<>> THEN Tail(backlog) ELSE backlog

InitStall ==
    /\ CodecOff
    /\ ClientOff
    /\ now = 0
    /\ backlog = <<>>
    /\ obs = [i \in Slots |-> NoObs]
    /\ s_items = <<>>
    /\ IsWorld(handle_new_connection(Started, NewFd(Started.ctl),
                                     [NoConn EXCEPT !.responsive = FALSE], 0))

(* a client connects *)
StallKnock ==
    /\ Cardinality({i \in Slots : Connected(i)}) + Len(backlog) < MaxStallConn
    /\ backlog' = Append(backlog, NoConn)
    /\ UNCHANGED <<codecVars, clientVars, now, ctl, net, obs, s_items>>

(* the client of slot i sends a handshake *)
PeerSend(i) ==
    /\ Connected(i) /\ net[i].wire = <<>>
    /\ net' = [net EXCEPT ![i].wire = WireBytes(ClientFrame(i, OP_SET_REQUEST))]
    /\ UNCHANGED <<codecVars, clientVars, now, ctl, backlog, obs, s_items>>

(* the client of slot i reads what the server has written *)
PeerRead(i) ==
    /\ Connected(i) /\ net[i].responsive /\ net[i].tx # <<>>
    /\ net' = [net EXCEPT ![i].tx = <<>>]
    /\ UNCHANGED <<codecVars, clientVars, now, ctl, backlog, obs, s_items>>

(* one iteration of the loop, dt seconds after the one before; a client    *)
(* that reads has read before the server writes again                       *)
StallLoop(dt) ==
    /\ ctl.running = 1
    /\ s_items = <<>>
    /\ now + dt <= MaxStallTime
    /\ \A i \in Slots : Connected(i) /\ net[i].responsive => net[i].tx = <<>>
    /\ StallCommit(StallIteration(World, Readable, now + dt), now + dt)
    /\ UNCHANGED <<codecVars, clientVars, obs>>

(* a second passes while the server is in a send that does not return *)
StallWait ==
    /\ s_items # <<>>
    /\ now < MaxStallTime
    /\ now' = now + 1
    /\ UNCHANGED <<codecVars, clientVars, ctl, net, backlog, obs, s_items>>

NextStall ==
    \/ StallKnock
    \/ \E i \in {0, 1} : PeerSend(i)
    \/ \E i \in {0, 1} : PeerRead(i)
    \/ \E dt \in 0..SELECT_TIMEOUT : StallLoop(dt)
    \/ StallWait

SpecStall == InitStall /\ [][NextStall]_vars

(* C23: with a connected client that never reads, the server still does    *)
(* its work: the heartbeat round is never more than HEARTBEAT_INTERVAL      *)
(* seconds old, and no second passes with a connection waiting to be        *)
(* accepted or with bytes of a client waiting to be handled.                *)
C23_StalledReaderBlocksNobody ==
    /\ [](now - ctl.last_heartbeat_check <= HEARTBEAT_INTERVAL)
    /\ [][now' > now => /\ backlog # <<>> => backlog' = <<>>
                        /\ \A i \in Readable : net'[i].wire = <<>>]_vars

-----------------------------------------------------------------------------
(* Shutdown.  server_demo.c installs signal_handler for SIGINT and SIGTERM; *)
(* the handler calls signal_controller_stop and exit, at whatever statement  *)
(* the signal finds the loop.  In this specification s_items is the position *)
(* of the loop: <<>> at select, <<handler, slot, statements done>> inside    *)
(* handle_new_connection or disconnect_client, <<"exit">> after the signal.  *)

MaxStopTime == 2

StopSlots == {0, 1}

(* the for loop of signal_controller_stop *)
RECURSIVE StopLoop(_, _, _)
StopLoop(w, lo, hi) ==
    IF lo > hi THEN w
    ELSE IF lo = hi
    THEN IF w.ctl.clients[lo].connected # 0 THEN disconnect_client(w, lo) ELSE w
    ELSE LET left == StopLoop(w, lo, (lo + hi) \div 2)
         IN  IF left.ctl.client_count >= 0 \/ left.ctl.client_count < 0
             THEN StopLoop(left, (lo + hi) \div 2 + 1, hi)
             ELSE left

CloseListener(w) ==
    IF w.ctl.server_sockfd >= 0 THEN [w EXCEPT !.ctl.server_sockfd = -1] ELSE w

signal_controller_stop(w) ==
    CloseListener(StopLoop([w EXCEPT !.ctl.running = 0], 0, MAX_CLIENTS - 1))

(* the k-th assignment of handle_new_connection to the slot it found *)
AcceptStatement(w, client_idx, k, fd, t) ==
    IF k = 1 THEN [w EXCEPT !.ctl.clients[client_idx].sockfd = fd,
                            !.net[client_idx] = NoConn]
    ELSE IF k = 2 THEN [w EXCEPT !.ctl.clients[client_idx].connected = 1]
    ELSE IF k = 3 THEN [w EXCEPT !.ctl.clients[client_idx].last_heartbeat = t]
    ELSE IF k = 4 THEN [w EXCEPT !.ctl.clients[client_idx].recv_buffer = <<>>]
    ELSE [w EXCEPT !.ctl.client_count = @ + 1]

(* the k-th assignment of disconnect_client to a connected slot *)
DisconnectStatement(w, client_idx, k) ==
    IF k = 1 THEN [w EXCEPT !.ctl.clients[client_idx].sockfd = -1]
    ELSE IF k = 2 THEN [w EXCEPT !.ctl.clients[client_idx].connected = 0]
    ELSE IF k = 3 THEN [w EXCEPT !.ctl.clients[client_idx].recv_buffer = <<>>]
    ELSE [w EXCEPT !.ctl.client_count = @ - 1]

InitStop ==
    /\ CodecOff
    /\ ClientOff
    /\ now = 0
    /\ backlog = <<>>
    /\ obs = [i \in Slots |-> NoObs]
    /\ s_items = <<>>
    /\ IsWorld([Started EXCEPT !.ctl.server_sockfd = 3])

(* the listener is readable: handle_new_connection starts *)
StopAccept ==
    /\ s_items = <<>>
    /\ FreeSlots(World) \cap StopSlots # {}
    /\ BecomesWorld(AcceptStatement(World, FirstOf(FreeSlots(World)), 1, NewFd(ctl), now))
    /\ s_items' = <<"accept", FirstOf(FreeSlots(World)), 1>>
    /\ UNCHANGED <<codecVars, clientVars, now, backlog, obs>>

(* recv returns 0 on slot i: disconnect_client starts *)
StopDisconnect(i) ==
    /\ s_items = <<>>
    /\ ctl.clients[i].connected # 0
    /\ BecomesWorld(DisconnectStatement(World, i, 1))
    /\ s_items' = <<"disconnect", i, 1>>
    /\ UNCHANGED <<codecVars, clientVars, now, backlog, obs>>

(* the next statement of the handler the loop is in *)
StopStatement ==
    /\ Len(s_items) = 3
    /\ BecomesWorld(IF s_items[1] = "accept"
                    THEN AcceptStatement(World, s_items[2], s_items[3] + 1, NewFd(ctl), now)
                    ELSE DisconnectStatement(World, s_items[2], s_items[3] + 1))
    /\ s_items' = IF s_items[3] + 1 = (IF s_items[1] = "accept" THEN 5 ELSE 4)
                  THEN <<>> ELSE [s_items EXCEPT ![3] = @ + 1]
    /\ UNCHANGED <<codecVars, clientVars, now, backlog, obs>>

StopTick ==
    /\ s_items = <<>>
    /\ now < MaxStopTime
    /\ now' = now + 1
    /\ UNCHANGED <<codecVars, clientVars, ctl, net, backlog, obs, s_items>>

(* signal_handler: signal_controller_stop, exit *)
signal_handler ==
    /\ s_items # <<"exit">>
    /\ BecomesWorld(signal_controller_stop(World))
    /\ s_items' = <<"exit">>
    /\ UNCHANGED <<codecVars, clientVars, now, backlog, obs>>

NextStop ==
    \/ StopAccept
    \/ \E i \in StopSlots : StopDisconnect(i)
    \/ StopStatement
    \/ StopTick
    \/ signal_handler

SpecStop == InitStop /\ [][NextStop]_vars

(* C24: after the shutdown signal running is 0, no slot is connected, the  *)
(* sockfd of every slot is -1, client_count is 0 and server_sockfd is -1.   *)
C24_ShutdownClears ==
    s_items = <<"exit">>
    => /\ ctl.running = 0
       /\ \A i \in Slots : ctl.clients[i].connected = 0 /\ ctl.clients[i].sockfd = -1
       /\ ctl.client_count = 0
       /\ ctl.server_sockfd = -1

-----------------------------------------------------------------------------
(* escape_data and unescape_data called on arbitrary bytes with an output   *)
(* buffer of any size; the result is kept with the size it was called with  *)

RawSizes == 0..(2 * MaxBytesLen + 1)

Sized(r, output_size) ==
    [ret |-> r.ret, out |-> r.out, oob |-> r.oob, output_size |-> output_size]

(* the unescaped bytes of the slices given to decode_frame, before the CRC: *)
(* shorter than the header, the header, the header and one content byte,   *)
(* a header of delimiters                                                   *)
SliceBodies ==
    {Fill(65, n) : n \in {16, 18, 19, 20, 21}} \cup {Fill(FRAME_START, 20)}

(* what lies between the delimiters: the body with its CRC, escaped; with  *)
(* another CRC; with a wrong escape code in front; with an escape byte at   *)
(* the end                                                                  *)
SliceInterior(body, kind) ==
    IF kind = "crc"
    THEN escape_data(AppendCrc(body, (calculate_crc16(body) + 1) % 65536), MAX_FRAME_SIZE).out
    ELSE IF kind = "code"
    THEN <<ESCAPE_CHAR, 65>> \o escape_data(AppendCrc(body, calculate_crc16(body)), MAX_FRAME_SIZE).out
    ELSE IF kind = "lone"
    THEN escape_data(AppendCrc(body, calculate_crc16(body)), MAX_FRAME_SIZE).out \o <<ESCAPE_CHAR>>
    ELSE escape_data(AppendCrc(body, calculate_crc16(body)), MAX_FRAME_SIZE).out

Slices ==
    {<<first>> \o SliceInterior(body, kind) \o <<last>> :
        first \in {FRAME_START, 65}, last \in {FRAME_END, 65},
        body \in SliceBodies, kind \in {"sound", "crc", "code", "lone"}}
    \cup SeqsUpTo(InputBytes, MaxBytesLen)

(* tables with a content around the limits: MAX_CONTENT_SIZE, one more,    *)
(* and the lengths at which data_table and escaped_data of encode_frame     *)
(* are full                                                                 *)
BigLengths ==
    {MAX_CONTENT_SIZE, MAX_CONTENT_SIZE + 1, MAX_FRAME_SIZE - 24, MAX_FRAME_SIZE - 23,
     MAX_FRAME_SIZE - 21, MAX_FRAME_SIZE - 19}

BigTables ==
    {create_data_table(create_device_id(ServerAdmin, DEVICE_TYPE_COIL, 256),
                       create_device_id(ServerAdmin, DEVICE_TYPE_SIGNAL, 1),
                       OP_UPLOAD, OBJ_TRAFFIC_STATS, Fill(byte, n), n) :
        byte \in {65, 66}, n \in BigLengths}

(* the handshake of a detector of the administrative code 0x01AD24 *)
SingleFrame ==
    create_data_table(create_device_id(109860, DEVICE_TYPE_COIL, 256),
                      create_device_id(109860, DEVICE_TYPE_SIGNAL, 1),
                      OP_SET_REQUEST, OBJ_COMMUNICATION, <<>>, 0)

InitRaw ==
    /\ ServerOff
    /\ ClientOff
    /\ c_pc \in {"raw", "slice", "frame"}
    /\ c_b \in IF c_pc = "raw" THEN SeqsUpTo(InputBytes, MaxBytesLen)
               ELSE IF c_pc = "slice" THEN Slices ELSE {<<>>}
    /\ c_d \in IF c_pc = "frame" THEN BigTables \cup {SingleFrame} ELSE {NoFrame}
    /\ CodecIdle

(* escape_data(b, len, out, output_size) *)
RawEscape(output_size) ==
    /\ c_pc = "raw"
    /\ c_esc' = Sized(escape_data(c_b, output_size), output_size)
    /\ c_pc' = "raw-escaped"
    /\ UNCHANGED <<c_b, c_d, c_unesc, c_enc, c_dec, serverVars, clientVars>>

(* unescape_data(b, len, out, output_size) *)
RawUnescape(output_size) ==
    /\ c_pc = "raw"
    /\ c_unesc' = Sized(unescape_data(c_b, output_size), output_size)
    /\ c_pc' = "raw-unescaped"
    /\ UNCHANGED <<c_b, c_d, c_esc, c_enc, c_dec, serverVars, clientVars>>

(* decode_frame(b, len, &frame) *)
SliceDecode ==
    /\ c_pc = "slice"
    /\ c_dec' = decode_frame(c_b)
    /\ c_pc' = "slice-decoded"
    /\ UNCHANGED <<c_b, c_d, c_esc, c_unesc, c_enc, serverVars, clientVars>>

(* len = encode_frame(&frame, buffer, sizeof(buffer)), buffer of MAX_FRAME_SIZE *)
FrameEncode ==
    /\ c_pc = "frame"
    /\ c_enc' = encode_frame(c_d, MAX_FRAME_SIZE)
    /\ c_pc' = "frame-encoded"
    /\ UNCHANGED <<c_b, c_d, c_esc, c_unesc, c_dec, serverVars, clientVars>>

(* decode_frame(buffer, len, &decoded) when encode_frame returned len > 0 *)
FrameDecode ==
    /\ c_pc = "frame-encoded"
    /\ c_enc.ret > 0
    /\ c_dec' = decode_frame(c_enc.buf)
    /\ c_pc' = "frame-decoded"
    /\ UNCHANGED <<c_b, c_d, c_esc, c_unesc, c_enc, serverVars, clientVars>>

NextRaw ==
    \/ \E output_size \in RawSizes : RawEscape(output_size)
    \/ \E output_size \in RawSizes : RawUnescape(output_size)
    \/ SliceDecode
    \/ FrameEncode
    \/ FrameDecode

SpecRaw == InitRaw /\ [][NextRaw]_vars

(* the inverse of the escape rule: DB DC is C0, DB DD is DB, any other     *)
(* byte is itself                                                           *)
RECURSIVE Unstuffed(_)
Unstuffed(b) ==
    IF b = <<>> THEN <<>>
    ELSE IF b[1] = ESCAPE_CHAR /\ Len(b) >= 2
    THEN <<IF b[2] = ESCAPE_START THEN FRAME_START ELSE ESCAPE_CHAR>>
            \o Unstuffed(SubSeq(b, 3, Len(b)))
    ELSE <<b[1]>> \o Unstuffed(Tail(b))

(* an escape byte followed by a byte that is no escape code *)
WrongCode(b) ==
    \E k \in 1..(Len(b) - 1) :
        b[k] = ESCAPE_CHAR /\ b[k + 1] \notin {ESCAPE_START, ESCAPE_ESCAPE}

(* an escape byte at the end, with no successor *)
LoneEscape(b) == b # <<>> /\ b[Len(b)] = ESCAPE_CHAR

(* C25: with room for the output, unescape_data returns -1 for every       *)
(* non-empty input in which 0xDB is followed by a byte other than 0xDC and  *)
(* 0xDD and for every input that ends with 0xDB; for every other input it   *)
(* returns the inverse of the escape rule.                                  *)
C25_UnescapeRejectsBadEscapes ==
    (c_pc = "raw-unescaped" /\ c_b # <<>> /\ c_unesc.output_size >= Len(c_b)) =>
        IF WrongCode(c_b) \/ LoneEscape(c_b)
        THEN c_unesc.ret = -1
        ELSE c_unesc.ret = Len(Unstuffed(c_b)) /\ c_unesc.out = Unstuffed(c_b)

(* what lies between the first and the last byte of a slice *)
Interior(b) == SubSeq(b, 2, Len(b) - 1)

CrcDiffers(u) ==
    u[Len(u) - 1] + 256 * u[Len(u)] # calculate_crc16(SubSeq(u, 1, Len(u) - 2))

(* the result the precedence gives for the unescaped interior u *)
ClassOfUnescaped(u) ==
    IF Len(u) < 20 THEN PROTOCOL_ERROR_INCOMPLETE
    ELSE IF CrcDiffers(u) THEN PROTOCOL_ERROR_CRC
    ELSE PROTOCOL_SUCCESS

SliceClass(b) ==
    IF b[1] # FRAME_START \/ b[Len(b)] # FRAME_END THEN PROTOCOL_ERROR_FORMAT
    ELSE IF WrongCode(Interior(b)) \/ LoneEscape(Interior(b)) THEN PROTOCOL_ERROR_ESCAPE
    ELSE ClassOfUnescaped(Unstuffed(Interior(b)))

(* C26: decode_frame returns, for a slice of any length from 2 on, FORMAT  *)
(* if the first or the last byte is not 0xC0, else ESCAPE if the interior   *)
(* has an invalid escape, else INCOMPLETE if the unescaped interior has     *)
(* fewer than 20 bytes, else CRC if the received CRC is not the computed    *)
(* one, else success.                                                       *)
C26_DecodePrecedence ==
    (c_pc = "slice-decoded" /\ Len(c_b) >= 2) => c_dec.result = SliceClass(c_b)

(* C27: for every slice decode_frame accepts, content_len is the unescaped  *)
(* length minus 20 and the number of content bytes that follow the header   *)
(* fields, and the content copy reads nothing outside the unescaped data.   *)
C27_ContentLenMatches ==
    (c_pc = "slice-decoded" /\ c_dec.result = PROTOCOL_SUCCESS) =>
        /\ c_dec.frame.content_len = Len(Unstuffed(Interior(c_b))) - 20
        /\ c_dec.frame.content_len = Len(c_dec.frame.content)
        /\ ~c_dec.oob

(* C28: encode_frame writes nothing outside its work buffers and produces   *)
(* no frame for a table with more than MAX_CONTENT_SIZE bytes of content or *)
(* more than MAX_FRAME_SIZE unescaped bytes; decode_frame accepts no such    *)
(* frame.                                                                    *)
C28_SizeLimits ==
    /\ c_pc \in {"frame-encoded", "frame-decoded"} =>
          /\ ~c_enc.oob
          /\ c_enc.ret > 0 => /\ c_d.content_len <= MAX_CONTENT_SIZE
                              /\ Len(SerializeHeader(c_d)) + c_d.content_len + 2 <= MAX_FRAME_SIZE
    /\ (c_pc = "frame-decoded" /\ c_dec.result = PROTOCOL_SUCCESS) =>
          /\ c_dec.frame.content_len <= MAX_CONTENT_SIZE
          /\ ~c_dec.oob

SingleFrameDone == c_pc \in {"frame-encoded", "frame-decoded"} /\ c_d = SingleFrame

(* the bytes of the frame that precede the CRC, the delimiter left out *)
BeforeCrc(buf) == SubSeq(buf, 2, Len(buf) - 3)

(* C29 as stated: the encoded handshake has 23 bytes, the first and the    *)
(* last are 0xC0, and the CRC, low byte then high byte, precedes the last.  *)
C29_SingleFrameHas23Bytes ==
    SingleFrameDone =>
        /\ c_enc.ret = 23 /\ Len(c_enc.buf) = 23
        /\ c_enc.buf[1] = FRAME_START /\ c_enc.buf[23] = FRAME_END
        /\ c_enc.buf[21] = calculate_crc16(BeforeCrc(c_enc.buf)) % 256
        /\ c_enc.buf[22] = calculate_crc16(BeforeCrc(c_enc.buf)) \div 256

(* C29: the encoded handshake has 24 bytes (the delimiters, 20 bytes of    *)
(* header, 2 of CRC; none of them needs escaping), the first and the last   *)
(* are 0xC0, and the CRC of the header, low byte then high byte, precedes   *)
(* the last; decoding gives the table back.                                 *)
C29_SingleFrame ==
    /\ SingleFrameDone =>
          /\ c_enc.ret = 24 /\ Len(c_enc.buf) = 24
          /\ c_enc.buf[1] = FRAME_START /\ c_enc.buf[24] = FRAME_END
          /\ BeforeCrc(c_enc.buf) = SerializeHeader(SingleFrame)
          /\ c_enc.buf[22] = calculate_crc16(BeforeCrc(c_enc.buf)) % 256
          /\ c_enc.buf[23] = calculate_crc16(BeforeCrc(c_enc.buf)) \div 256
    /\ (SingleFrameDone /\ c_pc = "frame-decoded") =>
          c_dec.result = PROTOCOL_SUCCESS /\ c_dec.frame = SingleFrame

C29_Witness ==
    /\ c_pc = "frame-decoded" /\ c_d = SingleFrame
    /\ c_d.sender.admin_code = 109860 /\ c_d.content = <<>>
    /\ c_enc.ret = 24 /\ c_dec.frame = c_d
    /\ c_enc.buf[22] # c_enc.buf[23]

(* C30: escape_data and unescape_data, called on a non-empty input whose   *)
(* result has n bytes, return n when output_size >= n and -1 when it is     *)
(* smaller, and for every output_size, 0 included, write nothing at an      *)
(* index >= output_size.                                                    *)
C30_CapacityRespected ==
    /\ (c_pc = "raw-escaped" /\ c_b # <<>>) =>
          /\ ~c_esc.oob
          /\ Len(c_esc.out) <= c_esc.output_size
          /\ c_esc.ret = IF c_esc.output_size >= escape_data(c_b, MAX_FRAME_SIZE).ret
                         THEN escape_data(c_b, MAX_FRAME_SIZE).ret ELSE -1
    /\ (c_pc = "raw-unescaped" /\ unescape_data(c_b, MAX_FRAME_SIZE).ret >= 0) =>
          /\ ~c_unesc.oob
          /\ Len(c_unesc.out) <= c_unesc.output_size
          /\ c_unesc.ret = IF c_unesc.output_size >= unescape_data(c_b, MAX_FRAME_SIZE).ret
                           THEN unescape_data(c_b, MAX_FRAME_SIZE).ret ELSE -1

-----------------------------------------------------------------------------
(* A wall clock that is set back.  In this specification now is the time    *)
(* that has passed, and time(NULL) returns now minus the seconds the clock  *)
(* was set back.  The server runs with one client, or the client runs       *)
(* against a server that accepts and may send its query.  s_items is        *)
(* <<seconds set back, time of the last heartbeat round, time slot 0 was     *)
(* accepted or last refreshed>>; d_obs holds the same for the client.       *)

MaxClockTime == 22

MaxClockRun == 18

(* the steps back: less than every interval, and more than every interval *)
ClockSteps == {3, 100}

NoClock == [back |-> 0, connect_at |-> 0, realtime_at |-> 0, statistics_at |-> 0,
            heartbeat_at |-> 0]

InitClock ==
    /\ CodecOff
    /\ backlog = <<>>
    /\ obs = [i \in Slots |-> NoObs]
    /\ s_items = <<0, 0, 0>>
    /\ link = NoLink
    /\ d_obs = NoClock
    /\ \/ /\ now = 0
          /\ IsWorld(handle_new_connection(Started, NewFd(Started.ctl), NoConn, 0))
          /\ det = vehicle_detector_init(ServerAdmin, DEVICE_TYPE_COIL, 1)
       \/ /\ now = Boot
          /\ ctl = signal_controller_init(ServerAdmin, 1, 0)
          /\ net = [i \in Slots |-> NoConn]
          /\ det = [vehicle_detector_init(ServerAdmin, DEVICE_TYPE_COIL, 1)
                       EXCEPT !.running = 1]

(* the clock is set back by k seconds, once *)
ClockBack(k) ==
    /\ s_items[1] = 0 /\ d_obs.back = 0
    /\ s_items' = [s_items EXCEPT ![1] = k]
    /\ d_obs' = [d_obs EXCEPT !.back = k]
    /\ UNCHANGED <<codecVars, now, ctl, net, backlog, obs, det, link>>

(* the client of slot 0 sends a heartbeat response *)
ClockReply ==
    /\ Connected(0) /\ net[0].wire = <<>>
    /\ net' = [net EXCEPT ![0].wire = WireBytes(ClientFrame(0, OP_QUERY_RESPONSE))]
    /\ UNCHANGED <<codecVars, clientVars, now, ctl, backlog, obs, s_items>>

(* a client connects when slot 0 is free *)
ClockKnock ==
    /\ ctl.running = 1 /\ ~Connected(0) /\ backlog = <<>>
    /\ backlog' = <<NoConn>>
    /\ UNCHANGED <<codecVars, clientVars, now, ctl, net, obs, s_items>>

(* the times of the last round and of the last refresh of slot 0 after an  *)
(* iteration that ends at time t in the world after                         *)
ClockServerTimes(after, t) ==
    <<s_items[1],
      IF after.ctl.last_heartbeat_check # ctl.last_heartbeat_check THEN t ELSE s_items[2],
      IF after.ctl.clients[0].connected # 0
         /\ (~Connected(0) \/ after.net[0].rx # <<>>) THEN t ELSE s_items[3]>>

ClockServerCommit(after, t) ==
    /\ now' = t
    /\ ctl' = after.ctl
    /\ net' = [i \in Slots |-> IF after.ctl.clients[i].connected = 0 THEN NoConn
                               ELSE after.net[i]]
    /\ backlog' = <<>>
    /\ s_items' = ClockServerTimes(after, t)

(* one iteration of the while loop of signal_controller_start, dt seconds  *)
(* after the one before, time(NULL) being behind by s_items[1]              *)
ClockServerLoop(dt) ==
    /\ ctl.running = 1
    /\ now + dt <= MaxClockTime
    /\ ClockServerCommit(Iteration(AtSelect, Readable, now + dt - s_items[1]).after, now + dt)
    /\ UNCHANGED <<codecVars, clientVars, obs>>

(* the times of the last events of the client after an iteration that      *)
(* ends at time t in the state after                                        *)
ClockClientTimes(after, t) ==
    [back          |-> d_obs.back,
     connect_at    |-> IF after.det.last_connect_try # det.last_connect_try
                       THEN t ELSE d_obs.connect_at,
     realtime_at   |-> IF after.det.last_realtime_upload # det.last_realtime_upload
                       THEN t ELSE d_obs.realtime_at,
     statistics_at |-> IF after.det.last_statistics_upload # det.last_statistics_upload
                       THEN t ELSE d_obs.statistics_at,
     heartbeat_at  |-> IF after.det.connected # 0
                          /\ (det.connected = 0 \/ link.wire # <<>>)
                       THEN t ELSE d_obs.heartbeat_at]

ClockClientCommit(after, t) ==
    /\ now' = t
    /\ det' = after.det
    /\ link' = after.link
    /\ d_obs' = ClockClientTimes(after, t)

(* one iteration of the while loop of vehicle_detector_start, dt seconds   *)
(* after the one before, time(NULL) being behind by d_obs.back              *)
ClockClientLoop(dt) ==
    /\ det.running = 1
    /\ now + dt <= Boot + MaxClockRun
    /\ ClockClientCommit(DetectorIteration(AtLoopTop, now + dt - d_obs.back, "none"),
                         now + dt)
    /\ UNCHANGED <<codecVars, ctl, net, backlog, obs, s_items>>

(* the server sends a heartbeat query to the client *)
ClockQuery ==
    /\ det.running = 1 /\ det.connected # 0 /\ link.wire = <<>>
    /\ link' = [link EXCEPT !.wire = WireBytes(ServerQuery)]
    /\ UNCHANGED <<codecVars, serverVars, det, d_obs>>

NextClock ==
    \/ \E k \in ClockSteps : ClockBack(k)
    \/ ClockReply
    \/ ClockKnock
    \/ \E dt \in 0..SELECT_TIMEOUT : ClockServerLoop(dt)
    \/ \E dt \in 0..DetectorSelectTimeout : ClockClientLoop(dt)
    \/ ClockQuery

SpecClock == InitClock /\ [][NextClock]_vars

-----------------------------------------------------------------------------
(* Claims about the receive buffer after handle_client_message (SpecStream) *)

(* the bytes frame lie in buffer from position k on *)
HoldsAt(buffer, frame, k) ==
    /\ k + Len(frame) - 1 <= Len(buffer)
    /\ SubSeq(buffer, k, k + Len(frame) - 1) = frame

HoldsFrame(buffer, frame) == \E k \in 1..Len(buffer) : HoldsAt(buffer, frame, k)

(* C32: after handle_client_message the receive buffer is empty, or        *)
(* shorter than 4 bytes, or begins with 0xC0 and holds no 0xC0 after it;    *)
(* it holds none of the encoded frames of the stream as a whole.            *)
C32_BufferIsDrained ==
    /\ \/ Len(ctl.clients[0].recv_buffer) < 4
       \/ /\ ctl.clients[0].recv_buffer[1] = FRAME_START
          /\ \A k \in 2..Len(ctl.clients[0].recv_buffer) :
                ctl.clients[0].recv_buffer[k] # FRAME_END
    /\ \A i \in 1..Len(s_items) :
          ~HoldsFrame(ctl.clients[0].recv_buffer, WireBytes(s_items[i].table))

-----------------------------------------------------------------------------
(* C33: for every slot 0 <= recv_buffer_len <= CLIENT_RECV_BUFFER_SIZE, and  *)
(* the region handle_client_message would offer to recv, from the length    *)
(* left by the reset of a full buffer on, is not empty and ends inside the  *)
(* buffer.                                                                  *)
C33_BufferWithinBounds ==
    \A i \in Slots :
        /\ Len(ctl.clients[i].recv_buffer) >= 0
        /\ Len(ctl.clients[i].recv_buffer) <= CLIENT_RECV_BUFFER_SIZE
        /\ AvailableSpace(ctl.clients[i]) > 0
        /\ Len(ResetIfFull(World, i).ctl.clients[i].recv_buffer)
             + AvailableSpace(ctl.clients[i]) <= CLIENT_RECV_BUFFER_SIZE

(* a recv filled the buffer of slot 0 to its last byte *)
C33_Witness ==
    /\ ctl.clients[0].connected = 1
    /\ Len(ctl.clients[0].recv_buffer) = CLIENT_RECV_BUFFER_SIZE
    /\ Len(net[0].wire) > 0
    /\ Len(ResetIfFull(World, 0).ctl.clients[0].recv_buffer) = 0

-----------------------------------------------------------------------------
-----------------------------------------------------------------------------
(* The while loop of handle_client_message taken one iteration at a time,   *)
(* on any short buffer over the delimiter, the escape byte and a plain      *)
(* byte and on buffers of encoded frames, as recv left it.  s_items is      *)
(* <<position, iterations begun, buffer at the start of the loop>>.         *)

MaxDrainLen == 6

DrainBytes == {FRAME_START, ESCAPE_CHAR, 65}

DrainBuffers ==
    UNION {[1..n -> DrainBytes] : n \in 1..MaxDrainLen}
    \cup { WireBytes(t) \o WireBytes(u) \o rest :
              t \in FollowingTables, u \in FollowingTables,
              rest \in {<<>>, <<FRAME_START, 65>>} }

InitDrain ==
    /\ CodecOff
    /\ ClientOff
    /\ now = TrafficTime
    /\ backlog = <<>>
    /\ obs = [i \in Slots |-> NoObs]
    /\ \E buffer \in DrainBuffers :
          /\ s_items = <<"loop", 0, buffer>>
          /\ IsWorld([handle_new_connection(Started, 4, NoConn, 0)
                        EXCEPT !.ctl.clients[0].recv_buffer = buffer])

(* the loop test holds: extract_complete_frame, and either break or        *)
(* process_single_frame and the removal of the frame                       *)
DrainIteration ==
    /\ s_items[1] = "loop"
    /\ Len(ctl.clients[0].recv_buffer) > 0
    /\ BecomesWorld(DrainOneFrame(World, 0, now,
                                  extract_complete_frame(ctl.clients[0].recv_buffer)))
    /\ s_items' = <<IF extract_complete_frame(ctl.clients[0].recv_buffer).result <= 0
                    THEN "returned" ELSE "loop",
                    s_items[2] + 1, s_items[3]>>
    /\ UNCHANGED <<codecVars, clientVars, now, backlog, obs>>

(* the loop test fails: recv_buffer_len is 0 *)
DrainExit ==
    /\ s_items[1] = "loop"
    /\ Len(ctl.clients[0].recv_buffer) = 0
    /\ s_items' = <<"returned", s_items[2], s_items[3]>>
    /\ UNCHANGED <<codecVars, clientVars, now, ctl, net, backlog, obs>>

NextDrain ==
    \/ DrainIteration
    \/ DrainExit

(* the loop runs on once entered: weak fairness of NextDrain, with         *)
(* ENABLED <<NextDrain>>_vars written as what it is, s_items[1] = "loop"   *)
DrainFairness ==
    \/ []<>(s_items[1] # "loop")
    \/ []<><<NextDrain>>_vars

SpecDrain == InitDrain /\ [][NextDrain]_vars /\ DrainFairness

(* C35: the drain loop of handle_client_message ends for every buffer:     *)
(* an iteration that does not end the loop shortens the buffer by at       *)
(* least two bytes, and no more iterations begin than the buffer had       *)
(* bytes.                                                                  *)
C35_DrainLoopTerminates ==
    /\ <>(s_items[1] = "returned")
    /\ [](s_items[2] <= Len(s_items[3]))
    /\ [][s_items'[1] = "loop"
          => Len(ctl'.clients[0].recv_buffer) <= Len(ctl.clients[0].recv_buffer) - 2]_vars

(* the loop ended in its third iteration on a buffer of six bytes, two     *)
(* frames taken out of it                                                  *)
C35_Witness ==
    /\ s_items[1] = "returned"
    /\ s_items[2] = 3
    /\ Len(s_items[3]) = 6
    /\ Len(ctl.clients[0].recv_buffer) = 2

-----------------------------------------------------------------------------
(* One slot used by two clients one after the other: a client connects,    *)
(* sends its handshake, a frame that does not decode or nothing, and       *)
(* closes; the next client connects and is given the same slot.  s_items   *)
(* lists what the clients sent first.                                      *)

MaxSessions == 2
MaxReuseTime == 12

(* the first bytes of the client that is session number n of the slot *)
FirstBytes(n, kind) ==
    CASE kind = "handshake" -> WireBytes(ClientFrame(n, OP_SET_REQUEST))
      [] kind = "undecodable" -> <<FRAME_START, 65, 65, FRAME_END>>
      [] kind = "nothing" -> <<>>

(* a client connects and sends its first bytes: the connection waits for   *)
(* accept                                                                  *)
ReuseConnect(kind) ==
    /\ Len(s_items) < MaxSessions
    /\ backlog = <<>>
    /\ \A i \in Slots : ~Connected(i)
    /\ backlog' = <<[NoConn EXCEPT !.wire = FirstBytes(Len(s_items) + 1, kind),
                                   !.hs_sent = TRUE]>>
    /\ s_items' = Append(s_items, kind)
    /\ UNCHANGED <<codecVars, clientVars, now, ctl, net, obs>>

(* one iteration of the while loop of signal_controller_start, dt seconds  *)
(* after the one before                                                    *)
ReuseLoop(dt) ==
    /\ ctl.running = 1
    /\ now + dt <= MaxReuseTime
    /\ Commit(Iteration(AtSelect, Readable, now + dt))
    /\ UNCHANGED <<codecVars, clientVars, s_items>>

NextReuse ==
    \/ \E kind \in {"handshake", "undecodable", "nothing"} : ReuseConnect(kind)
    \/ ClientClose(0)
    \/ \E dt \in 0..SELECT_TIMEOUT : ReuseLoop(dt)

SpecReuse == Init /\ [][NextReuse]_vars

(* the session in slot 0 is the second one of the slot and the server has  *)
(* not handled its handshake                                               *)
SecondBeforeHandshake ==
    /\ Len(s_items) = MaxSessions
    /\ Connected(0)
    /\ obs[0].hs_at < 0

(* C36: a session in a slot that another client used before starts with   *)
(* an empty receive buffer, last_heartbeat at the time of the accept and   *)
(* no peer DeviceId, and until its handshake is handled no frame sent to   *)
(* it has the DeviceId of the client before as its receiver.               *)
C36_ReusedSlotStartsClean ==
    /\ [][(Len(s_items) = MaxSessions /\ ~Connected(0)
           /\ ctl'.clients[0].connected # 0)
          => /\ ctl'.clients[0].recv_buffer = <<>>
             /\ ctl'.clients[0].last_heartbeat = now'
             /\ ctl'.clients[0].device_id = NoDevice]_vars
    /\ [](SecondBeforeHandshake
          => \A k \in 1..Len(net[0].tx) :
                net[0].tx[k].receiver # ClientFrame(1, OP_SET_REQUEST).sender)

-----------------------------------------------------------------------------
(* The connection attempts of the client: d_obs holds the time of the last *)
(* call of detector_connect (at, -1: none yet) and the time between the    *)
(* last two calls (gap, -1: fewer than two).  The server accepts or not,   *)
(* closes the connection or leaves it open, and sends nothing.             *)

MaxRetryRun == 17

NoAttempt == [at |-> -1, gap |-> -1]

InitRetry ==
    /\ CodecOff
    /\ now = Boot
    /\ ctl = signal_controller_init(ServerAdmin, 1, 0)
    /\ net = [i \in Slots |-> NoConn]
    /\ backlog = <<>>
    /\ obs = [i \in Slots |-> NoObs]
    /\ s_items = <<>>
    /\ det = [vehicle_detector_init(ServerAdmin, DEVICE_TYPE_COIL, 1) EXCEPT !.running = 1]
    /\ link = NoLink
    /\ d_obs = NoAttempt

(* the iteration at time t calls detector_connect *)
ObserveAttempt(o, before, t) ==
    IF before.det.connected = 0 /\ ConnectDue(before, t)
    THEN [at |-> t, gap |-> IF o.at < 0 THEN -1 ELSE t - o.at]
    ELSE o

(* one iteration of the while loop of vehicle_detector_start, dt seconds   *)
(* after the one before                                                    *)
RetryLoop(dt, fault) ==
    /\ det.running = 1
    /\ now + dt <= Boot + MaxRetryRun
    /\ fault # "none" => det.connected # 0 \/ link.accepting
    /\ now' = now + dt
    /\ BecomesDetector(DetectorIteration(AtLoopTop, now + dt, fault))
    /\ d_obs' = ObserveAttempt(d_obs, AtLoopTop, now + dt)
    /\ UNCHANGED <<codecVars, ctl, net, backlog, obs, s_items>>

NextRetry ==
    \/ \E dt \in 0..DetectorSelectTimeout, fault \in {"none", "recv", "send", "select"} :
          RetryLoop(dt, fault)
    \/ ServerClose
    \/ ServerListen

SpecRetry == InitRetry /\ [][NextRetry]_vars

(* C37: two successive connection attempts of the client are at least      *)
(* CONNECT_RETRY_INTERVAL seconds apart, however the connection before     *)
(* ended.                                                                  *)
C37_AttemptsApart ==
    d_obs.gap >= 0 => d_obs.gap >= CONNECT_RETRY_INTERVAL

(* the client is connected again by an attempt made exactly one retry      *)
(* interval after the attempt before                                       *)
C37_Witness ==
    /\ d_obs.gap = CONNECT_RETRY_INTERVAL
    /\ d_obs.at = now
    /\ det.connected # 0

-----------------------------------------------------------------------------
(* The two endpoints of one connection and a single frame given to one of  *)
(* them: a frame that does not decode, an ERROR_RESP, or a frame on an     *)
(* object id that no case of the switch names.  What an endpoint sends is  *)
(* put on the wire of the other; no timer fires.  s_items holds the frame  *)
(* and whom it was given to.                                               *)

ErrorChunk == 7

UnknownObjects == {0, 4660}

BadFrames(tables) ==
    {Damaged(d, WireBytes(t)) : t \in tables, d \in {"crc", "escape", "header"}}

FramesToServer ==
    {[to |-> "server", kind |-> "bad", bytes |-> b] : b \in BadFrames(DamagedTables)}
    \cup {[to |-> "server", kind |-> "error",
           bytes |-> WireBytes(create_error_frame(
                        create_device_id(ServerAdmin, DEVICE_TYPE_COIL, 1),
                        create_device_id(ServerAdmin, DEVICE_TYPE_SIGNAL, 1), e))] :
             e \in {1, ERROR_CRC}}
    \cup {[to |-> "server", kind |-> "unknown",
           bytes |-> WireBytes(TrafficTable(1, op, obj, <<>>))] :
             op \in {OP_QUERY_REQUEST, OP_SET_REQUEST, OP_UPLOAD}, obj \in UnknownObjects}

FramesToClient ==
    {[to |-> "client", kind |-> "bad", bytes |-> b] : b \in BadFrames(ServerTables)}
    \cup {[to |-> "client", kind |-> "error",
           bytes |-> WireBytes(create_error_frame(
                        create_device_id(ServerAdmin, DEVICE_TYPE_SIGNAL, 1), receiver,
                        ERROR_CRC))] :
             receiver \in {NoDevice, create_device_id(ServerAdmin, DEVICE_TYPE_COIL, 1)}}
    \cup {[to |-> "client", kind |-> "unknown",
           bytes |-> WireBytes(ServerTable(op, obj))] :
             op \in {OP_QUERY_REQUEST, OP_SET_RESPONSE, OP_UPLOAD_RESPONSE},
             obj \in UnknownObjects}

(* the session of the client in slot 0, before its handshake or after it *)
ErrorSessions ==
    { handle_new_connection(Started, 4, NoConn, Boot),
      [handle_new_connection(Started, 4, NoConn, Boot)
          EXCEPT !.ctl.clients[0].device_id =
                     create_device_id(ServerAdmin, DEVICE_TYPE_COIL, 1)] }

InitErrors ==
    /\ CodecOff
    /\ now = Boot
    /\ backlog = <<>>
    /\ obs = [i \in Slots |-> NoObs]
    /\ d_obs = NoLoss
    /\ \E f \in FramesToServer \cup FramesToClient, w \in ErrorSessions :
          /\ s_items = <<f>>
          /\ IsWorld([w EXCEPT !.net[0].wire = IF f.to = "server" THEN f.bytes ELSE <<>>])
          /\ IsDetector([ConnectedDetector
                            EXCEPT !.link.sent = <<>>,
                                   !.link.wire = IF f.to = "client" THEN f.bytes ELSE <<>>])

(* the server after handle_client_message: what it sent is on the wire of  *)
(* the client                                                              *)
ErrorServerCommit(w) ==
    /\ BecomesWorld(w)
    /\ link' = [link EXCEPT !.wire = @ \o TablesBytes(SubSeq(w.net[0].tx,
                                                             Len(net[0].tx) + 1,
                                                             Len(w.net[0].tx)))]
    /\ det' = det

(* the client loop of signal_controller_start for slot 0: recv returns at  *)
(* most c bytes                                                            *)
ErrorServerRead(c) ==
    /\ ctl.clients[0].connected # 0
    /\ net[0].wire # <<>>
    /\ ErrorServerCommit(ServeSlot(World, 0,
                                   IF c < RecvLen(World, 0) THEN c ELSE RecvLen(World, 0),
                                   now))
    /\ UNCHANGED <<codecVars, now, backlog, obs, s_items, d_obs>>

(* the client after handle_server_message: what it sent is on the wire of  *)
(* the server                                                              *)
ErrorClientCommit(r) ==
    /\ BecomesDetector(IF r.ret < 0 THEN detector_disconnect(r.d) ELSE r.d)
    /\ net' = [net EXCEPT ![0].wire = @ \o TablesBytes(SubSeq(r.d.link.sent,
                                                              Len(link.sent) + 1,
                                                              Len(r.d.link.sent)))]
    /\ ctl' = ctl

(* handle_server_message of the client: recv returns at most c bytes *)
ErrorClientRead(c) ==
    /\ det.connected # 0
    /\ link.wire # <<>>
    /\ ErrorClientCommit(ReceiveFromServer(
                             Detector,
                             IF c < DetectorRecvLen(Detector) THEN c
                             ELSE DetectorRecvLen(Detector),
                             now, "none"))
    /\ UNCHANGED <<codecVars, now, backlog, obs, s_items, d_obs>>

NextErrors ==
    \/ \E c \in {ErrorChunk, CLIENT_RECV_BUFFER_SIZE} : ErrorServerRead(c)
    \/ \E c \in {ErrorChunk, MAX_FRAME_SIZE} : ErrorClientRead(c)

SpecErrors == InitErrors /\ [][NextErrors]_vars

(* C38: the client answers nothing to a frame it cannot decode, and        *)
(* neither endpoint answers an ERROR_RESP or a frame on an unrecognised    *)
(* object id; a frame that does not decode at the server brings at most    *)
(* one frame, an ERROR_RESP of the server, and nothing after it.           *)
C38_ErrorsDoNotLoop ==
    /\ link.sent = <<>>
    /\ (s_items[1].to = "client" \/ s_items[1].kind # "bad") => net[0].tx = <<>>
    /\ Len(net[0].tx) <= 1
    /\ \A k \in 1..Len(net[0].tx) : IsErrorResponse(net[0].tx[k])

(* the server answered a frame that did not decode with an ERROR_RESP and  *)
(* the client has read it                                                  *)
C38_Witness ==
    /\ s_items[1].to = "server"
    /\ s_items[1].kind = "bad"
    /\ Len(net[0].tx) = 1
    /\ IsErrorResponse(net[0].tx[1])
    /\ link.wire = <<>>
    /\ net[0].wire = <<>>
    /\ link.sent = <<>>

-----------------------------------------------------------------------------
(* C39: wherever the signal handler interrupts the server loop, the middle *)
(* of handle_new_connection and of disconnect_client included,             *)
(* client_count is never negative, and once signal_controller_stop has run *)
(* it is the number of connected slots.                                    *)
C39_SignalKeepsCount ==
    /\ ctl.client_count >= 0
    /\ s_items = <<"exit">> => ctl.client_count = Cardinality(ConnectedSlots)

=============================================================================
